---------------------------- MODULE Spec2Model ----------------------------
(***************************************************************************)
(* Risk-adaptive authentication server: the risk fusion engine              *)
(* (services/riskCalculator.js), the baseline store and the challenge       *)
(* manager (services/userManager.js) and the auth controller that           *)
(* sequences them (controllers/authController, src/unnamed/part_005); the   *)
(* rate limiter in front of the routes (utils/rateLimiter.ts, server.ts);   *)
(* and, in the browser, the keystroke capture (client/src/lib/biometrics.ts)*)
(* and the local risk estimator (src/unnamed/part_002).                     *)
(*                                                                          *)
(* Numbers.  JavaScript numbers are modelled as exact rationals <<n, d>>    *)
(* with d > 0 in lowest terms, extended with the three IEEE specials the    *)
(* code can produce by dividing by zero: NaN = <<0,0>>, +Infinity =         *)
(* <<1,0>>, -Infinity = <<-1,0>>.  Rounding error of doubles is not         *)
(* modelled; Math.sqrt is taken to 1/SqrtPrec.                              *)
(*                                                                          *)
(* Time.  Date.now() is the variable now, in seconds.                       *)
(***************************************************************************)
EXTENDS Integers, Sequences, FiniteSets, TLC

VARIABLES
    now,                \* Date.now(), seconds
    biometricProfiles,  \* UserManager.biometricProfiles : userId -> profile
    challenges,         \* ChallengeManager.challenges : challengeId -> ChallengeData
    issued,             \* number of challenge ids (uuidv4) handed out so far
    loginReq,           \* the last login request and how it was answered
    stepReq,            \* step-up requests in flight, per connection
    started,            \* requests accepted so far, per kind (model bound only)
    tokens,             \* session tokens issued
    hist,               \* per challenge id, the verify results in call order
    evaluation,         \* last direct call of RiskCalculator.calculateRisk
    estimator,          \* client RiskCalculator: model, isModelReady, normalizeParams
    prediction,         \* the last calculateRisk call on the estimator
    capture,            \* BiometricCapture: metrics and sessionData
    typing,             \* performance.now() and the keys pressed and released so far
    modal,              \* the step-up dialog: store slice and StepUpChallenge state
    rateStore,          \* RateLimiter.store : key -> bucket
    admitted            \* requests the rate limiter let through, per class and time

clientVars == <<estimator, prediction, capture, typing, modal>>

limiterVars == <<rateStore, admitted>>

vars == <<now, biometricProfiles, challenges, issued, loginReq, stepReq,
          started, tokens, hist, evaluation, clientVars, limiterVars>>

-----------------------------------------------------------------------------
(* JavaScript number arithmetic                                             *)

RECURSIVE GCD(_, _)
GCD(a, b) == IF b = 0 THEN a ELSE GCD(b, a % b)

AbsInt(k) == IF k < 0 THEN -k ELSE k

SignInt(k) == IF k > 0 THEN 1 ELSE IF k < 0 THEN -1 ELSE 0

Norm(n, d) ==
    LET g == GCD(AbsInt(n), d)
    IN  <<n \div g, d \div g>>

NaN == <<0, 0>>

Num(k) == <<k, 1>>

Frac(n, d) == Norm(n, d)

IsNaN(x) == x = NaN

IsFinite(x) == x[2] # 0

Neg(a) == <<-a[1], a[2]>>

Add(a, b) ==
    IF IsNaN(a) \/ IsNaN(b) THEN NaN
    ELSE IF a[2] = 0 /\ b[2] = 0 THEN (IF a = b THEN a ELSE NaN)
    ELSE IF a[2] = 0 THEN a
    ELSE IF b[2] = 0 THEN b
    ELSE LET g == GCD(a[2], b[2])
         IN  Norm(a[1] * (b[2] \div g) + b[1] * (a[2] \div g),
                  (a[2] \div g) * b[2])

Sub(a, b) == Add(a, Neg(b))

Mul(a, b) ==
    IF IsNaN(a) \/ IsNaN(b) THEN NaN
    ELSE IF a[2] = 0 \/ b[2] = 0
         THEN <<SignInt(a[1]) * SignInt(b[1]), 0>>
    ELSE LET g1 == GCD(AbsInt(a[1]), b[2])
             g2 == GCD(AbsInt(b[1]), a[2])
         IN  IF a[1] = 0 \/ b[1] = 0 THEN Num(0)
             ELSE <<(a[1] \div g1) * (b[1] \div g2),
                    (a[2] \div g2) * (b[2] \div g1)>>

\* x / 0 is +-Infinity, 0 / 0 is NaN (the zero divisors of the code are sums
\* starting from +0, so the divisor is never -0).
Div(a, b) ==
    IF IsNaN(a) \/ IsNaN(b) THEN NaN
    ELSE IF b[2] = 0 THEN (IF a[2] = 0 THEN NaN ELSE Num(0))
    ELSE IF b[1] = 0 THEN <<SignInt(a[1]), 0>>
    ELSE IF a[2] = 0 THEN <<SignInt(a[1]) * SignInt(b[1]), 0>>
    ELSE Mul(a, <<SignInt(b[1]) * b[2], AbsInt(b[1])>>)

Abs(a) == <<AbsInt(a[1]), a[2]>>

\* a < b; false when either is NaN
Lt(a, b) ==
    /\ ~IsNaN(a)
    /\ ~IsNaN(b)
    /\ IF a[2] = 0 \/ b[2] = 0 THEN a[1] * b[2] < b[1] * a[2] \/ (a[2] = b[2] /\ a[1] < b[1])
       ELSE LET g == GCD(a[2], b[2])
            IN  a[1] * (b[2] \div g) < b[1] * (a[2] \div g)

Gt(a, b) == Lt(b, a)

Le(a, b) == ~IsNaN(a) /\ ~IsNaN(b) /\ ~Lt(b, a)

Ge(a, b) == Le(b, a)

\* Math.min(a, b)
Min(a, b) == IF IsNaN(a) \/ IsNaN(b) THEN NaN ELSE IF Lt(b, a) THEN b ELSE a

\* Math.max(a, b)
Max(a, b) == IF IsNaN(a) \/ IsNaN(b) THEN NaN ELSE IF Lt(a, b) THEN b ELSE a

\* floor(sqrt(m)) for m >= 0
RECURSIVE ISqrtIn(_, _, _)
ISqrtIn(m, lo, hi) ==
    IF lo >= hi THEN lo
    ELSE LET mid == (lo + hi + 1) \div 2
         IN  IF mid * mid <= m THEN ISqrtIn(m, mid, hi)
             ELSE ISqrtIn(m, lo, mid - 1)

ISqrt(m) == ISqrtIn(m, 0, IF m < 46340 THEN m ELSE 46340)

SqrtPrec == 100

\* a is the square of a rational
IsSquare(a) ==
    /\ IsFinite(a)
    /\ a[1] >= 0
    /\ ISqrt(a[1]) * ISqrt(a[1]) = a[1]
    /\ ISqrt(a[2]) * ISqrt(a[2]) = a[2]

\* x floored to a multiple of 1/SqrtPrec (the precision kept for values
\* that derive from an irrational square root)
Quantize(x) ==
    IF ~IsFinite(x) THEN x
    ELSE Norm((x[1] \div x[2]) * SqrtPrec + ((x[1] % x[2]) * SqrtPrec) \div x[2], SqrtPrec)

\* Math.sqrt(a), exact when a is the square of a rational, else floored to
\* 1/SqrtPrec
Sqrt(a) ==
    IF IsNaN(a) \/ a[1] < 0 THEN NaN
    ELSE IF a[2] = 0 THEN a
    ELSE IF IsSquare(a) THEN <<ISqrt(a[1]), ISqrt(a[2])>>
    ELSE LET scaled == (a[1] \div a[2]) * SqrtPrec * SqrtPrec
                       + ((a[1] % a[2]) * SqrtPrec * SqrtPrec) \div a[2]
         IN  Norm(ISqrt(scaled), SqrtPrec)

InUnit(x) == Le(Num(0), x) /\ Le(x, Num(1))


-----------------------------------------------------------------------------
(* RiskCalculator (server/services/riskCalculator.js)                       *)

\* A BiometricFeatures value as it reaches the engine.  holdTimes and
\* flightTimes are sequences of integers (milliseconds); present names the
\* array fields the object carries (a field not in present is undefined).
Features(h, f, e, s) ==
    [holdTimes |-> h, flightTimes |-> f, errorRate |-> e, typingSpeed |-> s,
     present |-> {"holdTimes", "flightTimes"}]

NumSeq(ints) == [i \in 1..Len(ints) |-> Num(ints[i])]

\* array.reduce((sum, val) => sum + val, 0) over array[lo..hi].  The sum is
\* exact, so it is taken by halves (the order of the additions does not
\* change it), which keeps the recursion shallow for a full profile.
RECURSIVE SumRange(_, _, _)
SumRange(array, lo, hi) ==
    IF lo > hi THEN Num(0)
    ELSE IF lo = hi THEN array[lo]
    ELSE LET mid == (lo + hi) \div 2
         IN  Add(SumRange(array, lo, mid), SumRange(array, mid + 1, hi))

SumSeq(array) == SumRange(array, 1, Len(array))

CalculateAverage(array) ==
    IF Len(array) > 0 THEN Div(SumSeq(array), Num(Len(array))) ELSE Num(0)

CalculateVariance(array) ==
    IF Len(array) < 2 THEN Num(0)
    ELSE LET avg == CalculateAverage(array)
             squaredDiffs == [i \in 1..Len(array) |->
                                 Mul(Sub(array[i], avg), Sub(array[i], avg))]
         IN  CalculateAverage(squaredDiffs)

CalculateStandardDeviation(array) == Sqrt(CalculateVariance(array))

CalculateZScore(value, historicalValues) ==
    IF Len(historicalValues) < 2 THEN Num(0)
    ELSE LET mean == CalculateAverage(historicalValues)
             std == CalculateStandardDeviation(historicalValues)
             z == Div(Sub(value, mean), std)
         IN  IF Gt(std, Num(0))
             THEN (IF IsSquare(CalculateVariance(historicalValues)) THEN z ELSE Quantize(z))
             ELSE Num(0)

\* s.field || 0 : NaN and 0 are falsy
OrZero(x) == IF IsNaN(x) THEN Num(0) ELSE x

MapSamples(samples, field) == [i \in 1..Len(samples) |-> samples[i][field]]

\* a temporal risk that takes the hold deviation with its sign
CalculateTemporalRiskSigned(current, profile) ==
    LET avgHoldTimes == CalculateAverage(MapSamples(profile.samples, "avgHoldTime"))
        avgFlightTimes == CalculateAverage(MapSamples(profile.samples, "avgFlightTime"))
        currentHoldAvg == CalculateAverage(NumSeq(current.holdTimes))
        currentFlightAvg == CalculateAverage(NumSeq(current.flightTimes))
        holdDeviation == Div(Sub(currentHoldAvg, avgHoldTimes), avgHoldTimes)
        flightDeviation == Div(Abs(Sub(currentFlightAvg, avgFlightTimes)), avgFlightTimes)
        holdRisk == Min(Mul(holdDeviation, Num(2)), Num(1))
        flightRisk == Min(Mul(flightDeviation, Num(2)), Num(1))
    IN  Div(Add(holdRisk, flightRisk), Num(2))

CalculateTemporalRisk(current, profile) ==
    LET avgHoldTimes == CalculateAverage(MapSamples(profile.samples, "avgHoldTime"))
        avgFlightTimes == CalculateAverage(MapSamples(profile.samples, "avgFlightTime"))
        currentHoldAvg == CalculateAverage(NumSeq(current.holdTimes))
        currentFlightAvg == CalculateAverage(NumSeq(current.flightTimes))
        holdDeviation == Div(Abs(Sub(currentHoldAvg, avgHoldTimes)), avgHoldTimes)
        flightDeviation == Div(Abs(Sub(currentFlightAvg, avgFlightTimes)), avgFlightTimes)
        holdRisk == Min(Mul(holdDeviation, Num(2)), Num(1))
        flightRisk == Min(Mul(flightDeviation, Num(2)), Num(1))
    IN  Div(Add(holdRisk, flightRisk), Num(2))

CalculateBehavioralRisk(current, profile) ==
    LET avgErrorRate == CalculateAverage(MapSamples(profile.samples, "errorRate"))
        avgTypingSpeed == CalculateAverage(MapSamples(profile.samples, "typingSpeed"))
        errorDeviation == Abs(Sub(current.errorRate, avgErrorRate))
        speedDeviation == Div(Abs(Sub(current.typingSpeed, avgTypingSpeed)), avgTypingSpeed)
        errorRisk == Min(Mul(errorDeviation, Num(5)), Num(1))
        speedRisk == Min(Mul(speedDeviation, Num(3)), Num(1))
    IN  Div(Add(errorRisk, speedRisk), Num(2))

CalculateConsistencyRisk(current, profile) ==
    LET currentHoldVariance == CalculateVariance(NumSeq(current.holdTimes))
        currentFlightVariance == CalculateVariance(NumSeq(current.flightTimes))
        historicalHoldVariances ==
            [i \in 1..Len(profile.samples) |-> OrZero(profile.samples[i].holdTimeVariance)]
        historicalFlightVariances ==
            [i \in 1..Len(profile.samples) |-> OrZero(profile.samples[i].flightTimeVariance)]
        avgHoldVariance == CalculateAverage(historicalHoldVariances)
        avgFlightVariance == CalculateAverage(historicalFlightVariances)
        holdConsistencyRisk ==
            IF Gt(avgHoldVariance, Num(0))
            THEN Div(Abs(Sub(currentHoldVariance, avgHoldVariance)), avgHoldVariance)
            ELSE Num(0)
        flightConsistencyRisk ==
            IF Gt(avgFlightVariance, Num(0))
            THEN Div(Abs(Sub(currentFlightVariance, avgFlightVariance)), avgFlightVariance)
            ELSE Num(0)
    IN  Min(Div(Add(holdConsistencyRisk, flightConsistencyRisk), Num(2)), Num(1))

CalculateDeviationRisk(current, profile) ==
    LET samples == profile.samples
        holdTimeZScore == CalculateZScore(CalculateAverage(NumSeq(current.holdTimes)),
                                          MapSamples(samples, "avgHoldTime"))
        flightTimeZScore == CalculateZScore(CalculateAverage(NumSeq(current.flightTimes)),
                                            MapSamples(samples, "avgFlightTime"))
        typingSpeedZScore == CalculateZScore(current.typingSpeed,
                                             MapSamples(samples, "typingSpeed"))
        holdRisk == Min(Div(Abs(holdTimeZScore), Num(3)), Num(1))
        flightRisk == Min(Div(Abs(flightTimeZScore), Num(3)), Num(1))
        speedRisk == Min(Div(Abs(typingSpeedZScore), Num(3)), Num(1))
    IN  Div(Add(Add(holdRisk, flightRisk), speedRisk), Num(3))

\* holdTimes[i] - holdTimes[i - 1], i = 1 .. length - 1
Velocities(times) == [i \in 1..(Len(times) - 1) |-> Num(times[i + 1] - times[i])]

CalculateVelocityRisk(current, profile) ==
    IF Len(current.holdTimes) < 3 \/ Len(current.flightTimes) < 3 THEN Frac(3, 10)
    ELSE LET holdVelocityVariance == CalculateVariance(Velocities(current.holdTimes))
             historicalHoldVelocityVariance ==
                 CalculateAverage([i \in 1..Len(profile.samples) |->
                                      OrZero(profile.samples[i].holdVelocityVariance)])
             velocityRisk ==
                 IF Gt(historicalHoldVelocityVariance, Num(0))
                 THEN Div(Abs(Sub(holdVelocityVariance, historicalHoldVelocityVariance)),
                          historicalHoldVelocityVariance)
                 ELSE Frac(3, 10)
         IN  Min(velocityRisk, Num(1))

FactorNames == <<"temporal", "behavioral", "consistency", "deviation", "velocity", "client">>

\* the weights table of calculateWeightedScore, in hundredths
WeightPct(factor) ==
    CASE factor = "temporal" -> 25
      [] factor = "behavioral" -> 20
      [] factor = "consistency" -> 20
      [] factor = "deviation" -> 15
      [] factor = "velocity" -> 10
      [] factor = "client" -> 10

Weights(factor) == Frac(WeightPct(factor), 100)

\* typeof value === "number" && !isNaN(value) && weights[factor]
Usable(factors, k) == ~IsNaN(factors[FactorNames[k]])

RECURSIVE WeightedSum(_, _)
WeightedSum(factors, k) ==
    IF k = 0 THEN Num(0)
    ELSE IF Usable(factors, k)
         THEN Add(WeightedSum(factors, k - 1),
                  Mul(factors[FactorNames[k]], Weights(FactorNames[k])))
         ELSE WeightedSum(factors, k - 1)

RECURSIVE TotalWeight(_, _)
TotalWeight(factors, k) ==
    IF k = 0 THEN Num(0)
    ELSE IF Usable(factors, k)
         THEN Add(TotalWeight(factors, k - 1), Weights(FactorNames[k]))
         ELSE TotalWeight(factors, k - 1)

CalculateWeightedScore(factors) ==
    LET weightedSum == WeightedSum(factors, Len(FactorNames))
        totalWeight == TotalWeight(factors, Len(FactorNames))
    IN  IF Gt(totalWeight, Num(0)) THEN Div(weightedSum, totalWeight) ELSE Frac(1, 2)

DaySecs == 86400

CalculateConfidence(profile, t) ==
    LET sampleCount == Len(profile.samples)
        daysSinceFirstSample == Frac(t - profile.createdAt, DaySecs)
        sampleConfidence == Min(Frac(sampleCount, 20), Num(1))
        timeConfidence == Min(Div(daysSinceFirstSample, Num(30)), Num(1))
    IN  Div(Add(sampleConfidence, timeConfidence), Num(2))


\* the catch block of calculateRisk
FallbackRisk ==
    [finalScore |-> Frac(8, 10), factors |-> [error |-> TRUE],
     confidence |-> Num(0), analysis |-> "failed"]

\* a cold start that trusts the client's score alone
NewUserRiskClientOnly(clientRiskScore) ==
    LET factors == [temporal |-> Num(0), behavioral |-> Num(0),
                    consistency |-> Num(0), deviation |-> Num(0),
                    velocity |-> Num(0), client |-> OrZero(clientRiskScore)]
    IN  [finalScore |-> CalculateWeightedScore(factors), factors |-> factors,
         confidence |-> Frac(3, 10), analysis |-> "new-user"]

\* a cold start that rates an unknown typist as high risk
NewUserRiskCautious(clientRiskScore) ==
    LET factors == [temporal |-> Frac(7, 10), behavioral |-> Frac(7, 10),
                    consistency |-> Frac(7, 10), deviation |-> Frac(7, 10),
                    velocity |-> Frac(7, 10), client |-> OrZero(clientRiskScore)]
    IN  [finalScore |-> CalculateWeightedScore(factors), factors |-> factors,
         confidence |-> Frac(3, 10), analysis |-> "new-user"]

NewUserRisk(clientRiskScore) ==
    LET factors == [temporal |-> Frac(4, 10), behavioral |-> Frac(4, 10),
                    consistency |-> Frac(5, 10), deviation |-> Frac(3, 10),
                    velocity |-> Frac(3, 10), client |-> OrZero(clientRiskScore)]
    IN  [finalScore |-> CalculateWeightedScore(factors), factors |-> factors,
         confidence |-> Frac(3, 10), analysis |-> "new-user"]

\* !userProfile || !userProfile.samples || userProfile.samples.length === 0
IsNewUser(userProfile) == ~userProfile.exists \/ Len(userProfile.samples) = 0

\* The body of the try block.  Reading .length of an array field the
\* features object does not carry raises a TypeError (threw).
RiskBody(currentFeatures, userProfile, clientRiskScore, t) ==
    IF IsNewUser(userProfile)
    THEN [threw |-> FALSE, value |-> NewUserRisk(clientRiskScore)]
    ELSE IF ~({"holdTimes", "flightTimes"} \subseteq currentFeatures.present)
    THEN [threw |-> TRUE, value |-> FallbackRisk]
    ELSE LET factors ==
                 [temporal |-> CalculateTemporalRisk(currentFeatures, userProfile),
                  behavioral |-> CalculateBehavioralRisk(currentFeatures, userProfile),
                  consistency |-> CalculateConsistencyRisk(currentFeatures, userProfile),
                  deviation |-> CalculateDeviationRisk(currentFeatures, userProfile),
                  velocity |-> CalculateVelocityRisk(currentFeatures, userProfile),
                  client |-> OrZero(clientRiskScore)]
         IN  [threw |-> FALSE,
              value |-> [finalScore |-> CalculateWeightedScore(factors),
                         factors |-> factors,
                         confidence |-> CalculateConfidence(userProfile, t),
                         analysis |-> "computed"]]

\* calculateRisk without its catch block: the TypeError reaches the caller
CalculateRiskUncaught(currentFeatures, userProfile, clientRiskScore, t) ==
    LET body == RiskBody(currentFeatures, userProfile, clientRiskScore, t)
    IN  IF body.threw
        THEN [outcome |-> "thrown"]
        ELSE [outcome |-> "returned"] @@ body.value

\* try { body } catch { fallback }: what the caller of calculateRisk gets.
\* outcome is "returned" or, were the exception to escape, "thrown".
CalculateRisk(currentFeatures, userProfile, clientRiskScore, t) ==
    LET body == RiskBody(currentFeatures, userProfile, clientRiskScore, t)
    IN  IF body.threw
        THEN [outcome |-> "returned"] @@ FallbackRisk
        ELSE [outcome |-> "returned"] @@ body.value

-----------------------------------------------------------------------------
(* UserManager: the baseline store (server/services/userManager.js)         *)

ProfileLimit == 50

\* features.xs.reduce((sum, val) => sum + val, 0) / features.xs.length
\* (0 / 0 = NaN for an empty array)
MeanOf(array) == Div(SumSeq(array), Num(Len(array)))

VarianceOf(array, avg) ==
    Div(SumSeq([i \in 1..Len(array) |->
                   Mul(Sub(array[i], avg), Sub(array[i], avg))]),
        Num(Len(array)))

\* the newSample of updateBiometricProfile; holdVelocityVariance is not set
\* (undefined, which s.holdVelocityVariance || 0 reads as 0, like NaN); the
\* sample's timestamp is left out: no operation reads it
NewSample(features, t) ==
    LET avgHoldTime == MeanOf(NumSeq(features.holdTimes))
        avgFlightTime == MeanOf(NumSeq(features.flightTimes))
    IN  [avgHoldTime |-> avgHoldTime,
         avgFlightTime |-> avgFlightTime,
         holdTimeVariance |-> VarianceOf(NumSeq(features.holdTimes), avgHoldTime),
         flightTimeVariance |-> VarianceOf(NumSeq(features.flightTimes), avgFlightTime),
         errorRate |-> features.errorRate,
         typingSpeed |-> features.typingSpeed,
         holdVelocityVariance |-> NaN]

\* a push that never drops the oldest sample
PushSampleUnbounded(samples, newSample) == Append(samples, newSample)

\* a trim that drops the newest sample instead of the oldest
PushSamplePop(samples, newSample) ==
    LET pushed == Append(samples, newSample)
    IN  IF Len(pushed) > ProfileLimit THEN SubSeq(pushed, 1, ProfileLimit) ELSE pushed

\* profile.samples.push(newSample); if (length > 50) profile.samples.shift()
PushSample(samples, newSample) ==
    LET pushed == Append(samples, newSample)
    IN  IF Len(pushed) > ProfileLimit THEN Tail(pushed) ELSE pushed

\* updateBiometricProfile(userId, features): the store afterwards
UpdateBiometricProfile(store, userId, features, t) ==
    IF userId \notin DOMAIN store \/ ~store[userId].exists THEN store
    ELSE [store EXCEPT ![userId] =
             [@ EXCEPT !.samples = PushSample(@, NewSample(features, t)),
                       !.lastUpdated = t]]

\* resetBiometricProfile(userId): a fresh, empty profile
EmptyProfile(t) == [exists |-> TRUE, createdAt |-> t, lastUpdated |-> t, samples |-> <<>>]


-----------------------------------------------------------------------------
(* Strings: a JavaScript string is the sequence of its characters           *)

UpperCase == <<"A", "B", "C", "D", "E", "F", "G", "H", "I", "J", "K", "L", "M",
               "N", "O", "P", "Q", "R", "S", "T", "U", "V", "W", "X", "Y", "Z">>

LowerCase == <<"a", "b", "c", "d", "e", "f", "g", "h", "i", "j", "k", "l", "m",
               "n", "o", "p", "q", "r", "s", "t", "u", "v", "w", "x", "y", "z">>

Digits == <<"0", "1", "2", "3", "4", "5", "6", "7", "8", "9">>

IndexIn(table, c) == CHOOSE k \in 1..Len(table) : table[k] = c

IsIn(table, c) == \E k \in 1..Len(table) : table[k] = c

IsSpace(c) == c = " "

IsDigit(c) == IsIn(Digits, c)

ToLowerCase(str) ==
    [i \in 1..Len(str) |->
        IF IsIn(UpperCase, str[i]) THEN LowerCase[IndexIn(UpperCase, str[i])] ELSE str[i]]

RECURSIVE TrimStart(_)
TrimStart(str) ==
    IF Len(str) > 0 /\ IsSpace(str[1]) THEN TrimStart(Tail(str)) ELSE str

RECURSIVE TrimEnd(_)
TrimEnd(str) ==
    IF Len(str) > 0 /\ IsSpace(str[Len(str)])
    THEN TrimEnd(SubSeq(str, 1, Len(str) - 1))
    ELSE str

Trim(str) == TrimEnd(TrimStart(str))

\* haystack.includes(needle)
Includes(haystack, needle) ==
    \E i \in 0..(Len(haystack) - Len(needle)) :
        SubSeq(haystack, i + 1, i + Len(needle)) = needle

\* number of digits of str from position i on
RECURSIVE DigitRun(_, _)
DigitRun(str, i) ==
    IF i > Len(str) \/ ~IsDigit(str[i]) THEN 0 ELSE 1 + DigitRun(str, i + 1)

\* the decimal value of the n digits of str from position i on
RECURSIVE DigitsValue(_, _, _)
DigitsValue(str, i, n) ==
    IF n = 0 THEN 0
    ELSE 10 * DigitsValue(str, i, n - 1) + (IndexIn(Digits, str[i + n - 1]) - 1)

RECURSIVE Pow10(_)
Pow10(n) == IF n = 0 THEN 1 ELSE 10 * Pow10(n - 1)

\* parseFloat(str): the longest prefix [sign] digits [. digits] after leading
\* white space, NaN when it holds no digit; what follows the prefix is
\* ignored.  (Exponents and the literal Infinity are not modelled.)
ParseFloat(str) ==
    LET t == TrimStart(str)
        signed == Len(t) > 0 /\ t[1] \in {"-", "+"}
        start == IF signed THEN 2 ELSE 1
        n == DigitRun(t, start)
        hasDot == start + n <= Len(t) /\ t[start + n] = "."
        m == IF hasDot THEN DigitRun(t, start + n + 1) ELSE 0
        magnitude == Add(Num(DigitsValue(t, start, n)),
                         Frac(DigitsValue(t, start + n + 1, m), Pow10(m)))
    IN  IF n + m = 0 THEN NaN
        ELSE IF signed /\ t[1] = "-" THEN Neg(magnitude) ELSE magnitude

\* x === y on numbers
StrictEq(x, y) == ~IsNaN(x) /\ ~IsNaN(y) /\ x = y

\* [a-z0-9\s]
IsKept(c) == IsIn(LowerCase, c) \/ IsDigit(c) \/ IsSpace(c)

StopWords ==
    { <<"t", "h", "e">>, <<"a">>, <<"a", "n">>, <<"a", "n", "d">>, <<"o", "r">>,
      <<"b", "u", "t">>, <<"i", "n">>, <<"o", "n">>, <<"a", "t">>, <<"t", "o">>,
      <<"f", "o", "r">>, <<"o", "f">>, <<"w", "i", "t", "h">>, <<"b", "y">> }

\* str.replace(/\b(the|a|an|...)\b/g, "") on a string of [a-z0-9 ]: every
\* maximal run of word characters that is a stop word is removed, the white
\* space around it stays.  word is the run being read, out what is kept.
RECURSIVE DropStopWords(_, _, _, _)
DropStopWords(str, i, word, out) ==
    LET kept == IF word \in StopWords THEN out ELSE out \o word
    IN  IF i > Len(str) THEN kept
        ELSE IF IsSpace(str[i]) THEN DropStopWords(str, i + 1, <<>>, Append(kept, str[i]))
        ELSE DropStopWords(str, i + 1, Append(word, str[i]), out)

\* str.replace(/\s+/g, " ")
RECURSIVE CollapseSpaces(_)
CollapseSpaces(str) ==
    IF Len(str) = 0 THEN str
    ELSE IF IsSpace(str[1]) /\ Len(str) > 1 /\ IsSpace(str[2]) THEN CollapseSpaces(Tail(str))
    ELSE IF IsSpace(str[1]) THEN <<" ">> \o CollapseSpaces(Tail(str))
    ELSE <<str[1]>> \o CollapseSpaces(Tail(str))

\* the normalize closure of fuzzyMatch
Normalize(str) ==
    Trim(CollapseSpaces(DropStopWords(SelectSeq(str, IsKept), 1, <<>>, <<>>)))

Min3(x, y, z) ==
    IF x <= y /\ x <= z THEN x ELSE IF y <= z THEN y ELSE z

\* one row of the matrix of levenshteinDistance: row i from row i - 1 (prev),
\* rows held as sequences with column j at index j + 1
RECURSIVE LevRow(_, _, _, _, _)
LevRow(prev, ch, b, i, row) ==
    LET j == Len(row)
    IN  IF j > Len(b) THEN row
        ELSE LevRow(prev, ch, b, i,
                    Append(row, Min3(prev[j + 1] + 1,
                                     row[j] + 1,
                                     prev[j] + (IF ch = b[j] THEN 0 ELSE 1))))

RECURSIVE LevRows(_, _, _, _)
LevRows(a, b, i, prev) ==
    IF i > Len(a) THEN prev[Len(b) + 1]
    ELSE LevRows(a, b, i + 1, LevRow(prev, a[i], b, i, <<i>>))

LevenshteinDistance(a, b) == LevRows(a, b, 1, [j \in 1..(Len(b) + 1) |-> j - 1])

MaxInt(x, y) == IF x >= y THEN x ELSE y

\* 1 - (distance ?? 0) / (maxLength || 1) of fuzzyMatch
Similarity(normalizedSolution, normalizedAnswer) ==
    LET distance == LevenshteinDistance(normalizedSolution, normalizedAnswer)
        maxLength == MaxInt(Len(normalizedSolution), Len(normalizedAnswer))
    IN  Sub(Num(1), Frac(distance, IF maxLength = 0 THEN 1 ELSE maxLength))

SimilarityThreshold == Frac(8, 10)

FuzzyMatch(solution, answer) ==
    LET normalizedSolution == Normalize(solution)
        normalizedAnswer == Normalize(answer)
    IN  \/ normalizedSolution = normalizedAnswer
        \/ Includes(normalizedSolution, normalizedAnswer)
        \/ Includes(normalizedAnswer, normalizedSolution)
        \/ Ge(Similarity(normalizedSolution, normalizedAnswer), SimilarityThreshold)


-----------------------------------------------------------------------------
(* ChallengeManager (server/services/userManager.js, second half)           *)

ExpirySecs == 300

MaxAttempts == 3

ChallengeTypes == {"math", "pattern", "memory", "captcha", "security_questions"}

\* One answer per challenge type, as the create*Challenge generators draw
\* them: 20 + 22, the "even numbers" pattern, a word of the memory list, a
\* five-character captcha, the first security question.
AnswerOf(type) ==
    CASE type = "math" -> <<"4", "2">>
      [] type = "pattern" -> <<"1", "0">>
      [] type = "memory" -> <<"a", "p", "p", "l", "e">>
      [] type = "captcha" -> <<"A", "B", "2", "C", "D">>
      [] type = "security_questions" -> <<"b", "u", "d", "d", "y">>

\* the challengeData of createChallenge (question and hints left out: no
\* operation reads them)
ChallengeData(id, userId, type, t) ==
    [id |-> id, userId |-> userId, type |-> type, answer |-> AnswerOf(type),
     createdAt |-> t, expiresAt |-> t + ExpirySecs,
     attempts |-> 0, maxAttempts |-> MaxAttempts, completed |-> FALSE]

\* a comparison against a deadline one lifetime too late
IsExpiredLenient(challenge, t) == t > challenge.expiresAt + ExpirySecs

\* new Date() > new Date(challenge.expiresAt)
IsExpired(challenge, t) == t > challenge.expiresAt

\* a delete that empties the map
DeleteAll(store, id) == [k \in {} |-> store[k]]

\* this.challenges.delete(id)
Delete(store, id) == [k \in (DOMAIN store) \ {id} |-> store[k]]

CleanupExpiredChallenges(store, t) ==
    [k \in {i \in DOMAIN store : ~IsExpired(store[i], t)} |-> store[k]]

\* a createChallenge that stores the new challenge and sweeps nothing
CreateChallengeNoSweep(store, id, userId, type, t) ==
    [k \in (DOMAIN store) \cup {id} |->
        IF k = id THEN ChallengeData(id, userId, type, t) ELSE store[k]]

\* createChallenge(userId): challenges.set(id, data), then the cleanup
CreateChallenge(store, id, userId, type, t) ==
    CleanupExpiredChallenges(
        [k \in (DOMAIN store) \cup {id} |->
            IF k = id THEN ChallengeData(id, userId, type, t) ELSE store[k]],
        t)

VerifySolution(challenge, solution) ==
    LET normalizedSolution == Trim(ToLowerCase(solution))
        normalizedAnswer == Trim(ToLowerCase(challenge.answer))
    IN  CASE challenge.type = "math" ->
                 StrictEq(ParseFloat(normalizedSolution), ParseFloat(normalizedAnswer))
          [] challenge.type \in {"pattern", "memory", "captcha"} ->
                 normalizedSolution = normalizedAnswer
          [] challenge.type = "security_questions" ->
                 FuzzyMatch(normalizedSolution, normalizedAnswer)
          [] OTHER -> normalizedSolution = normalizedAnswer

\* a verifyChallenge that never finds the attempts used up
AttemptLimitReachedNever(challenge) == challenge.attempts < 0

\* a limit check that lets one more attempt through
AttemptLimitReachedStrict(challenge) == challenge.attempts > challenge.maxAttempts

\* challenge.attempts >= challenge.maxAttempts
AttemptLimitReached(challenge) == challenge.attempts >= challenge.maxAttempts

NotFound == [valid |-> FALSE, error |-> "Challenge not found or expired"]

Expired == [valid |-> FALSE, error |-> "Challenge expired"]

AlreadyCompleted == [valid |-> FALSE, error |-> "Challenge already completed"]

MaxExceeded == [valid |-> FALSE, error |-> "Maximum attempts exceeded"]

Incorrect(attemptsRemaining) ==
    [valid |-> FALSE, error |-> "Incorrect solution", attemptsRemaining |-> attemptsRemaining]

Completed(challenge, attempts) ==
    [valid |-> TRUE, userId |-> challenge.userId, challengeType |-> challenge.type,
     attempts |-> attempts]

\* a verifyChallenge that looks at completed before it looks at the clock
VerifyChallengeCompletedFirst(store, challengeId, solution, t) ==
    IF challengeId \notin DOMAIN store
    THEN [challenges |-> store, result |-> NotFound, evaluated |-> FALSE]
    ELSE LET challenge == store[challengeId]
             attempts == challenge.attempts + 1
         IN  IF challenge.completed
             THEN [challenges |-> store, result |-> AlreadyCompleted, evaluated |-> FALSE]
             ELSE IF IsExpired(challenge, t)
             THEN [challenges |-> Delete(store, challengeId), result |-> Expired,
                   evaluated |-> FALSE]
             ELSE IF AttemptLimitReached(challenge)
             THEN [challenges |-> Delete(store, challengeId), result |-> MaxExceeded,
                   evaluated |-> FALSE]
             ELSE IF VerifySolution(challenge, solution)
             THEN [challenges |-> [store EXCEPT ![challengeId].attempts = attempts,
                                                ![challengeId].completed = TRUE],
                   result |-> Completed(challenge, attempts),
                   evaluated |-> TRUE]
             ELSE [challenges |-> [store EXCEPT ![challengeId].attempts = attempts],
                   result |-> Incorrect(challenge.maxAttempts - attempts),
                   evaluated |-> TRUE]

\* a verifyChallenge that deletes the challenge it has just completed
VerifyChallengeDeleteOnComplete(store, challengeId, solution, t) ==
    IF challengeId \notin DOMAIN store
    THEN [challenges |-> store, result |-> NotFound, evaluated |-> FALSE]
    ELSE LET challenge == store[challengeId]
             attempts == challenge.attempts + 1
         IN  IF IsExpired(challenge, t)
             THEN [challenges |-> Delete(store, challengeId), result |-> Expired,
                   evaluated |-> FALSE]
             ELSE IF challenge.completed
             THEN [challenges |-> store, result |-> AlreadyCompleted, evaluated |-> FALSE]
             ELSE IF AttemptLimitReached(challenge)
             THEN [challenges |-> Delete(store, challengeId), result |-> MaxExceeded,
                   evaluated |-> FALSE]
             ELSE IF VerifySolution(challenge, solution)
             THEN [challenges |-> Delete(store, challengeId),
                   result |-> Completed(challenge, attempts),
                   evaluated |-> TRUE]
             ELSE [challenges |-> [store EXCEPT ![challengeId].attempts = attempts],
                   result |-> Incorrect(challenge.maxAttempts - attempts),
                   evaluated |-> TRUE]

\* verifyChallenge(challengeId, solution) at time t: the store afterwards, the
\* value returned, and whether verifySolution was reached (evaluated).  The
\* method holds no await: it runs to completion once called.
VerifyChallenge(store, challengeId, solution, t) ==
    IF challengeId \notin DOMAIN store
    THEN [challenges |-> store, result |-> NotFound, evaluated |-> FALSE]
    ELSE LET challenge == store[challengeId]
             attempts == challenge.attempts + 1
         IN  IF IsExpired(challenge, t)
             THEN [challenges |-> Delete(store, challengeId), result |-> Expired,
                   evaluated |-> FALSE]
             ELSE IF challenge.completed
             THEN [challenges |-> store, result |-> AlreadyCompleted, evaluated |-> FALSE]
             ELSE IF AttemptLimitReached(challenge)
             THEN [challenges |-> Delete(store, challengeId), result |-> MaxExceeded,
                   evaluated |-> FALSE]
             ELSE IF VerifySolution(challenge, solution)
             THEN [challenges |-> [store EXCEPT ![challengeId].attempts = attempts,
                                                ![challengeId].completed = TRUE],
                   result |-> Completed(challenge, attempts),
                   evaluated |-> TRUE]
             ELSE [challenges |-> [store EXCEPT ![challengeId].attempts = attempts],
                   result |-> Incorrect(challenge.maxAttempts - attempts),
                   evaluated |-> TRUE]


-----------------------------------------------------------------------------
(* Auth controller (controllers/authController: src/unnamed/part_005)       *)

GrantThreshold == Frac(3, 10)

DenyThreshold == Frac(7, 10)

\* login with the first branch taken up to the deny threshold
DecideGrantBelowDeny(finalScore) ==
    IF Lt(finalScore, DenyThreshold) THEN "GRANT" ELSE "DENY"

\* the if / else if / else on riskAnalysis.finalScore of login
Decide(finalScore) ==
    IF Lt(finalScore, GrantThreshold) THEN "GRANT"
    ELSE IF Lt(finalScore, DenyThreshold) THEN "STEP_UP"
    ELSE "DENY"

\* biometricSchema: z.array(z.number()) twice, errorRate in [0, 1],
\* typingSpeed >= 0
BiometricSchemaOk(features) ==
    /\ {"holdTimes", "flightTimes"} \subseteq features.present
    /\ Le(Num(0), features.errorRate) /\ Le(features.errorRate, Num(1))
    /\ Le(Num(0), features.typingSpeed)

\* loginSchema (username and password shape left to the credential check)
LoginSchemaOk(riskScore, features) ==
    /\ Le(Num(0), riskScore) /\ Le(riskScore, Num(1))
    /\ BiometricSchemaOk(features)

\* stepUpSchema: challengeId is a uuid, solution is z.string().min(1)
StepUpSchemaOk(solution) == Len(solution) >= 1

\* the branch of stepUp on a verify result that is not valid
StepUpRefusal(result) ==
    IF "attemptsRemaining" \in DOMAIN result /\ result.attemptsRemaining > 0
    THEN "RETRY"
    ELSE "DENY"


-----------------------------------------------------------------------------
(* Local risk estimator (client RiskCalculator: src/unnamed/part_002)       *)

\* The object as the constructor leaves it: initializeTensorFlow has run up
\* to its first await, tf.setBackend("wasm").  stored says whether
\* localStorage holds a saved model; pc is where the initialization stands.
\* disposedAt is not a field of the object: it remembers where the
\* initialization stood when dispose() was last called.
NewEstimator(stored) ==
    [pc |-> "setBackendWasm", stored |-> stored, model |-> "null",
     isModelReady |-> FALSE, trainingData |-> FALSE, normalizeParams |-> FALSE,
     disposedAt |-> "never"]

\* the catch block of loadOrCreateModel
LoadFailed(e) ==
    [e EXCEPT !.pc = "done", !.model = "created", !.isModelReady = TRUE]

\* loadOrCreateModel from the point where it holds a model: isModelReady is
\* set, then loadTrainingData runs (it holds no await); its tensor
\* operations either succeed and set normalizeParams or throw into the catch
ModelObtained(e, model, trainingOk) ==
    LET ready == [e EXCEPT !.model = model, !.isModelReady = TRUE,
                           !.trainingData = TRUE]
    IN  IF trainingOk
        THEN [ready EXCEPT !.pc = "done", !.normalizeParams = TRUE]
        ELSE LoadFailed(ready)

\* loadOrCreateModel up to its first await
LoadOrCreateModel(e, parseOk, trainingOk) ==
    IF e.stored
    THEN IF parseOk THEN [e EXCEPT !.pc = "modelFromJSON"] ELSE LoadFailed(e)
    ELSE ModelObtained(e, "created", trainingOk)

\* dispose()
DisposeEstimator(e) ==
    [e EXCEPT !.model = "null", !.normalizeParams = FALSE, !.isModelReady = FALSE,
              !.disposedAt = e.pc]

\* isReady()
IsReady(e) == e.isModelReady /\ e.model # "null"

\* !this.isModelReady || !this.model || !this.normalizeParams
NotReady(e) == ~e.isModelReady \/ e.model = "null" \/ ~e.normalizeParams

\* the value returned when the model is not ready or the prediction throws
NeutralFallback ==
    [riskScore |-> Frac(5, 10), confidence |-> Frac(1, 10), recommendation |-> "STEP_UP"]

\* calculateConfidence(features) of the estimator; features is the array
\* [holdTime, flightTime, _, _, speed, errorRate, consistency, _]
EstimatorConfidence(features) ==
    LET holdTime == features[1]
        flightTime == features[2]
        speed == features[5]
        errorRate == features[6]
        consistency == features[7]
        c1 == IF Lt(holdTime, Num(20)) \/ Gt(holdTime, Num(300))
              THEN Frac(8, 10) ELSE Num(1)
        c2 == IF Lt(flightTime, Num(10)) \/ Gt(flightTime, Num(500))
              THEN Mul(c1, Frac(8, 10)) ELSE c1
        c3 == IF Lt(speed, Num(10)) \/ Gt(speed, Num(200))
              THEN Mul(c2, Frac(7, 10)) ELSE c2
        c4 == IF Gt(errorRate, Num(20)) THEN Mul(c3, Frac(6, 10)) ELSE c3
        c5 == IF Lt(consistency, Num(30)) THEN Mul(c4, Frac(7, 10)) ELSE c4
    IN  Max(Frac(1, 10), c5)

\* a recommendation that does not look at the confidence
GetRecommendationNoOverride(riskScore, confidence) ==
    IF Lt(riskScore, Frac(3, 10)) THEN "GRANT"
    ELSE IF Gt(riskScore, Frac(7, 10)) THEN "DENY"
    ELSE "STEP_UP"

\* getRecommendation(riskScore, confidence)
GetRecommendation(riskScore, confidence) ==
    IF Lt(confidence, Frac(5, 10)) THEN "STEP_UP"
    ELSE IF Lt(riskScore, Frac(3, 10)) THEN "GRANT"
    ELSE IF Gt(riskScore, Frac(7, 10)) THEN "DENY"
    ELSE "STEP_UP"

\* the value calculateRisk returns once prediction.data() has delivered risk
ModelPrediction(features, risk) ==
    LET confidence == EstimatorConfidence(features)
    IN  [riskScore |-> risk, confidence |-> confidence,
         recommendation |-> GetRecommendation(risk, confidence)]

NoPrediction ==
    [pc |-> "none", ready |-> FALSE, waited |-> FALSE, features |-> <<>>,
     value |-> NeutralFallback]


-----------------------------------------------------------------------------
(* Keystroke capture (client/src/lib/biometrics.ts).  Key names are strings *)
(* of characters, times are performance.now() in milliseconds.              *)

Backspace == <<"B", "a", "c", "k", "s", "p", "a", "c", "e">>

ModifierKeys ==
    { <<"S", "h", "i", "f", "t">>, <<"C", "o", "n", "t", "r", "o", "l">>,
      <<"A", "l", "t">>, <<"M", "e", "t", "a">>,
      <<"C", "a", "p", "s", "L", "o", "c", "k">>, <<"T", "a", "b">>,
      <<"E", "s", "c", "a", "p", "e">>, <<"E", "n", "t", "e", "r">>,
      <<"A", "r", "r", "o", "w", "U", "p">>, <<"A", "r", "r", "o", "w", "D", "o", "w", "n">>,
      <<"A", "r", "r", "o", "w", "L", "e", "f", "t">>,
      <<"A", "r", "r", "o", "w", "R", "i", "g", "h", "t">>,
      <<"H", "o", "m", "e">>, <<"E", "n", "d">>, <<"P", "a", "g", "e", "U", "p">>,
      <<"P", "a", "g", "e", "D", "o", "w", "n">>, <<"I", "n", "s", "e", "r", "t">>,
      <<"D", "e", "l", "e", "t", "e">> }

\* modifierKeys.includes(key) || key.startsWith("F")
IsModifierKey(key) == key \in ModifierKeys \/ (Len(key) > 0 /\ key[1] = "F")

InitializeSession(t) ==
    [holdTimes |-> <<>>, flightTimes |-> <<>>, errorRate |-> Num(0),
     typingSpeed |-> Num(0), consistencyScore |-> Num(0), sessionStart |-> t,
     totalKeystrokes |-> 0, corrections |-> 0]

\* the object as the constructor leaves it at time t
NewCapture(t) == [metrics |-> <<>>, sessionData |-> InitializeSession(t)]

\* performance.now() when the capture object is constructed
PageLoaded == 1000

\* typing: the clock, the keys that are down, the letters pressed so far
\* with their press and release times, whether the session so far is
\* letters pressed one at a time, and the number of keyboard events
NoTyping == [clock |-> PageLoaded, held |-> {}, log |-> <<>>, plain |-> TRUE, events |-> 0]

\* calculateVariance(values) of the capture module
SessionVariance(values) ==
    IF Len(values) = 0 THEN Num(0)
    ELSE LET array == NumSeq(values)
             mean == Div(SumSeq(array), Num(Len(array)))
         IN  Div(SumSeq([i \in 1..Len(array) |->
                            Mul(Sub(array[i], mean), Sub(array[i], mean))]),
                 Num(Len(array)))

\* calculateTypingSpeed at time t
TypingSpeed(session, t) ==
    LET timeElapsed == Div(Div(Num(t - session.sessionStart), Num(1000)), Num(60))
        wordsTyped == Frac(session.totalKeystrokes, 5)
    IN  Div(wordsTyped, timeElapsed)

\* calculateErrorRate
ErrorRate(session) ==
    IF session.totalKeystrokes = 0 THEN Num(0)
    ELSE Mul(Frac(session.corrections, session.totalKeystrokes), Num(100))

\* calculateConsistencyScore
ConsistencyScore(session) ==
    IF Len(session.holdTimes) < 2 THEN Num(0)
    ELSE LET holdTimeVariance == SessionVariance(session.holdTimes)
             flightTimeVariance ==
                 IF Len(session.flightTimes) > 1
                 THEN SessionVariance(session.flightTimes) ELSE Num(0)
             normalizedHoldVar == Max(Num(0), Sub(Num(100), Div(holdTimeVariance, Num(10))))
             normalizedFlightVar ==
                 Max(Num(0), Sub(Num(100), Div(flightTimeVariance, Num(10))))
         IN  Div(Add(normalizedHoldVar, normalizedFlightVar), Num(2))

\* updateSession at time t
UpdateSession(session, t) ==
    [session EXCEPT !.typingSpeed = TypingSpeed(session, t),
                    !.errorRate = ErrorRate(session),
                    !.consistencyScore = ConsistencyScore(session)]

\* the record metrics.set stores on a key press
NewMetric(timestamp) == [downTime |-> timestamp, upTime |-> 0, lastKeyUp |-> 0]

\* captureKeyDown(event) at time timestamp
CaptureKeyDown(c, key, timestamp) ==
    IF IsModifierKey(key) THEN c
    ELSE IF key = Backspace
    THEN [c EXCEPT !.sessionData =
             UpdateSession([@ EXCEPT !.corrections = @ + 1], timestamp)]
    ELSE [c EXCEPT !.metrics = [k \in (DOMAIN c.metrics) \cup {key} |->
                                   IF k = key THEN NewMetric(timestamp)
                                   ELSE c.metrics[k]],
                   !.sessionData.totalKeystrokes = @ + 1]

\* captureKeyUp(event) at time timestamp
CaptureKeyUp(c, key, timestamp) ==
    IF IsModifierKey(key) \/ key \notin DOMAIN c.metrics THEN c
    ELSE LET metric == c.metrics[key]
             holdTime == timestamp - metric.downTime
             withHold == [c.sessionData EXCEPT !.holdTimes = Append(@, holdTime)]
             withFlight == IF metric.lastKeyUp > 0
                           THEN [withHold EXCEPT !.flightTimes =
                                    Append(@, metric.downTime - metric.lastKeyUp)]
                           ELSE withHold
         IN  [c EXCEPT !.metrics[key].upTime = timestamp,
                       !.metrics[key].lastKeyUp = timestamp,
                       !.sessionData = UpdateSession(withFlight, timestamp)]


-----------------------------------------------------------------------------
(* The step-up dialog of the client (components/auth/StepUpChallenge.tsx,   *)
(* store/auth-store.ts).  App renders the component once and keeps it       *)
(* mounted; it draws nothing while the store says there is no challenge.    *)
(* showStepUp, stepUpChallenge (0 is null) and timeRemaining are the        *)
(* program's state.  The other fields are kept for the properties: shown    *)
(* counts the challenges shown, displayed the seconds the current (or last) *)
(* challenge has been on screen, elapsed the seconds over all challenges,   *)
(* closedBy how the last challenge was closed.                              *)

\* useState(300)
ChallengeSecs == 300

\* the store's initial state and the component as mounted
MountStepUpChallenge ==
    [showStepUp |-> FALSE, stepUpChallenge |-> 0, timeRemaining |-> ChallengeSecs,
     shown |-> 0, displayed |-> 0, elapsed |-> 0, closedBy |-> "none"]

\* a dialog that starts every countdown afresh
ShowStepUpChallengeReset(m, challengeId) ==
    [m EXCEPT !.showStepUp = TRUE, !.stepUpChallenge = challengeId,
              !.timeRemaining = ChallengeSecs,
              !.shown = @ + 1, !.displayed = 0, !.closedBy = "none"]

\* setAuthenticated(response) with action STEP_UP, or showStepUpChallenge:
\* the store holds the challenge and the dialog opens; timeRemaining is left
\* as it is
ShowStepUpChallenge(m, challengeId) ==
    [m EXCEPT !.showStepUp = TRUE, !.stepUpChallenge = challengeId,
              !.shown = @ + 1, !.displayed = 0, !.closedBy = "none"]

\* hideStepUpChallenge()
HideStepUpChallenge(m, by) ==
    [m EXCEPT !.showStepUp = FALSE, !.stepUpChallenge = 0, !.closedBy = by]

\* the effect's condition for running the interval
TimerRunning(m) == m.showStepUp /\ m.stepUpChallenge # 0

\* one firing of the setInterval callback, a second after the last
IntervalFired(m) ==
    LET seen == [m EXCEPT !.displayed = @ + 1, !.elapsed = @ + 1]
    IN  IF m.timeRemaining <= 1
        THEN [HideStepUpChallenge(seen, "timer") EXCEPT !.timeRemaining = 0]
        ELSE [seen EXCEPT !.timeRemaining = @ - 1]

-----------------------------------------------------------------------------
(* Rate limiter (utils/rateLimiter.ts) and the middleware in front of the   *)
(* routes (server.ts).  A request URL (req.originalUrl) is the sequence of  *)
(* its parts, the route first and the query string, if any, after it;       *)
(* path.includes(route) is membership of the route among the parts.  Times  *)
(* are in seconds.                                                          *)

LoginRoute == "/api/auth/login"

StepUpRoute == "/api/auth/step-up"

LoginWindowSecs == 900

StepUpWindowSecs == 300

DefaultWindowSecs == 900

LoginMaxRequests == 10

StepUpMaxRequests == 5

DefaultMaxRequests == 100

ClientIps == {"10.0.0.1"}

RouteClasses == {LoginRoute, StepUpRoute, "other"}

\* admitted: the number of requests sent and, per ip and class of route,
\* the times at which the limiter let a request through
NoneAdmitted ==
    [requests |-> 0, times |-> [ip \in ClientIps |-> [c \in RouteClasses |-> <<>>]]]

PathIncludes(path, route) == \E i \in 1..Len(path) : path[i] = route

\* windowMs and maxRequests as rateLimitMiddleware picks them for the path
LimitsFor(path) ==
    IF PathIncludes(path, LoginRoute)
    THEN [windowSecs |-> LoginWindowSecs, maxRequests |-> LoginMaxRequests]
    ELSE IF PathIncludes(path, StepUpRoute)
    THEN [windowSecs |-> StepUpWindowSecs, maxRequests |-> StepUpMaxRequests]
    ELSE [windowSecs |-> DefaultWindowSecs, maxRequests |-> DefaultMaxRequests]

\* RateLimiter.cleanup() at time t
Cleanup(store, t) ==
    [k \in {key \in DOMAIN store : ~(t > store[key].resetTime)} |-> store[k]]

\* RateLimiter.checkLimit(identifier, endpoint, windowMs, maxRequests) at
\* time t: the store afterwards and the value returned.  sweep is the
\* outcome of Math.random() < 0.01.
CheckLimit(store, identifier, endpoint, windowSecs, maxRequests, t, sweep) ==
    LET key == <<identifier, endpoint>>
        swept == IF sweep THEN Cleanup(store, t) ELSE store
        fresh == key \notin DOMAIN swept \/ t > swept[key].resetTime
        bucket == IF fresh
                  THEN [count |-> 0, resetTime |-> t + windowSecs, firstRequest |-> t]
                  ELSE swept[key]
        allowed == ~(bucket.count >= maxRequests)
        counted == IF allowed THEN [bucket EXCEPT !.count = @ + 1] ELSE bucket
    IN  [store |-> [k \in (DOMAIN swept) \cup {key} |->
                       IF k = key THEN counted ELSE swept[k]],
         allowed |-> allowed]


-----------------------------------------------------------------------------
(* State machine                                                            *)

Users == {"u1", "u2"}

\* step-up connections that can be in flight at once
StepSlots == {1, 2}

\* the challenge types selectRandomChallengeType is taken to draw: one per
\* branch of verifySolution ("pattern" and "memory" share the captcha branch)
TypesDrawn == {"math", "captcha", "security_questions"}

\* bounds of the model
TickSecs == 300
MaxNow == 600
MaxStepUps == 4

\* Solutions a client submits to a challenge of the given type: the answer
\* in another case or padded, a near miss, malformed ones.
SolutionsFor(type) ==
    CASE type = "math" ->
             { <<" ", "4", "2", ".", "0">>, <<"4", "2", "a", "b", "c">>, <<"a", "b", "c">>, <<>> }
      [] type = "security_questions" ->
             { <<"B", "u", "d", "d", "y">>, <<"b", "u", "d", "y">>, <<"c", "a", "t">>,
               <<"b">>, <<"?", "!">> }
      [] type = "captcha" ->
             { <<"a", "b", "2", "c", "d">>, <<"A", "B", "2", "C">>, <<"?", "!">> }
      [] type = "pattern" ->
             { <<"1", "0">>, <<"1", "0", ".", "0">>, <<"?", "!">> }
      [] type = "memory" ->
             { <<"A", "p", "p", "l", "e", " ">>, <<"a", "p", "l", "e">>, <<"?", "!">> }

\* what a client sends for an id the store no longer holds
StaleSolutions == { <<"4", "2">> }

IdleStep == [pc |-> "idle", challengeId |-> 0, solution |-> <<>>, arrived |-> 0]

\* what the last POST /login was and how it was answered; n counts logins
NoLogin ==
    [n |-> 0, user |-> "u1", valid |-> FALSE, riskScore |-> Num(0),
     features |-> Features(<<>>, <<>>, Num(0), Num(0)),
     action |-> "none", status |-> 0, finalScore |-> NaN, confidence |-> NaN,
     analysis |-> "none", samplesBefore |-> 0, samplesAfter |-> 0,
     appended |-> FALSE, challengeId |-> 0, token |-> FALSE]

\* evaluation: the last direct calculateRisk call made on the store as it
\* stands (a change of the store forgets it)
NoEvaluation ==
    [called |-> FALSE, features |-> Features(<<>>, <<>>, Num(0), Num(0)),
     clientRiskScore |-> Num(0), at |-> 0, risk |-> [outcome |-> "none"]]

\* the profile createBiometricProfile builds for the "normal" profile type:
\* n samples at the type's base values (generateSyntheticSample)
SyntheticSample ==
    [avgHoldTime |-> Num(90), avgFlightTime |-> Num(110),
     holdTimeVariance |-> Num(27), flightTimeVariance |-> Num(40),
     errorRate |-> Frac(5, 100), typingSpeed |-> Num(200),
     holdVelocityVariance |-> Num(5)]

SeedProfile(n, createdAt, t) ==
    [exists |-> TRUE, createdAt |-> createdAt, lastUpdated |-> t,
     samples |-> [i \in 1..n |-> SyntheticSample]]

Tick ==
    /\ now + TickSecs <= MaxNow
    /\ now' = now + TickSecs
    /\ UNCHANGED <<clientVars, limiterVars>>
    /\ UNCHANGED <<biometricProfiles, challenges, issued, loginReq, stepReq,
                   started, tokens, hist, evaluation>>

\* ChallengeManager.createChallenge(userId), as the step-up branch of login
\* calls it; the id is a fresh uuid
CreateChallengeCall(userId, type) ==
    /\ issued' = issued + 1
    /\ challenges' = CreateChallenge(challenges, issued + 1, userId, type, now)
    /\ hist' = [k \in (DOMAIN hist) \cup {issued + 1} |->
                   IF k = issued + 1 THEN <<>> ELSE hist[k]]
    /\ UNCHANGED <<clientVars, limiterVars>>
    /\ UNCHANGED <<now, biometricProfiles, loginReq, stepReq, started, tokens, evaluation>>

\* a POST /step-up reaches the server; its handler has not run yet
StepUpReceive(s, challengeId, solution) ==
    /\ stepReq[s].pc = "idle"
    /\ started.stepUp < MaxStepUps
    /\ started' = [started EXCEPT !.stepUp = @ + 1]
    /\ stepReq' = [stepReq EXCEPT ![s] =
                      [pc |-> "received", challengeId |-> challengeId,
                       solution |-> solution,
                       arrived |-> IF challengeId \in DOMAIN challenges
                                   THEN challenges[challengeId].attempts
                                   ELSE 0 - 1]]
    /\ UNCHANGED <<clientVars, limiterVars>>
    /\ UNCHANGED <<now, biometricProfiles, challenges, issued, loginReq, tokens,
                   hist, evaluation>>

\* A malformed solution: it holds no letter or digit at all (empty, blank or
\* punctuation only) or, for a math challenge, no digit.
HasDigit(solution) == \E i \in 1..Len(solution) : IsDigit(solution[i])

HasLetter(solution) ==
    \E i \in 1..Len(solution) :
        IsIn(LowerCase, solution[i]) \/ IsIn(UpperCase, solution[i])

Malformed(type, solution) ==
    \/ ~HasDigit(solution) /\ ~HasLetter(solution)
    \/ type = "math" /\ ~HasDigit(solution)

\* The record of one verifyChallenge call kept in hist: the store entry as
\* the call found it, the solution's standing, the value returned and
\* whether the entry is still stored afterwards.  Standing is how far a
\* security-question solution is from the answer, both normalized: the edit
\* distance and whether 1 - distance / maxLength >= 0.8.
Standing(solution) ==
    LET normalizedSolution == Normalize(Trim(ToLowerCase(solution)))
        normalizedAnswer == Normalize(Trim(ToLowerCase(AnswerOf("security_questions"))))
        distance == LevenshteinDistance(normalizedSolution, normalizedAnswer)
        maxLength == MaxInt(Len(normalizedSolution), Len(normalizedAnswer))
    IN  [distance |-> distance,
         similar |-> 10 * (maxLength - distance) >= 8 * maxLength /\ maxLength > 0]

\* every solution the clients of the model submit
ClientSolutions ==
    UNION {SolutionsFor(type) : type \in ChallengeTypes}
        \cup {AnswerOf(type) : type \in ChallengeTypes} \cup StaleSolutions

StandingOf == [solution \in ClientSolutions |-> Standing(solution)]

\* what verifySolution makes of each solution, per challenge type
CorrectFor ==
    [type \in ChallengeTypes |->
        [solution \in ClientSolutions |->
            VerifySolution(ChallengeData(0, "u1", type, 0), solution)]]

VerifyRecord(req, call, action) ==
    LET id == req.challengeId
        present == id \in DOMAIN challenges
        fuzzy == present /\ challenges[id].type = "security_questions"
    IN  [result |-> call.result,
         evaluated |-> call.evaluated,
         present |-> present,
         late |-> present /\ now > challenges[id].expiresAt,
         completedBefore |-> present /\ challenges[id].completed,
         attemptsBefore |-> IF present THEN challenges[id].attempts ELSE 0,
         attemptsAfter |-> IF id \in DOMAIN call.challenges
                           THEN call.challenges[id].attempts ELSE 0 - 1,
         type |-> IF present THEN challenges[id].type ELSE "none",
         distance |-> IF fuzzy THEN StandingOf[req.solution].distance ELSE 0 - 1,
         similar |-> fuzzy /\ StandingOf[req.solution].similar,
         correct |-> present /\ CorrectFor[challenges[id].type][req.solution],
         malformed |-> present /\ Malformed(challenges[id].type, req.solution),
         arrived |-> req.arrived,
         kept |-> id \in DOMAIN call.challenges,
         action |-> action]

\* stepUp(req, res): parse, verifyChallenge, then RETRY / DENY, or
\* getUserById, generateToken(user, 0.2) and GRANT
StepUp(s) ==
    LET req == stepReq[s]
    IN  /\ req.pc = "received"
        /\ stepReq' = [stepReq EXCEPT ![s] = IdleStep]
        /\ IF ~StepUpSchemaOk(req.solution)
           THEN UNCHANGED <<challenges, hist, tokens>>
           ELSE \E call \in {VerifyChallenge(challenges, req.challengeId,
                                             req.solution, now)} :
                LET action == IF call.result.valid THEN "GRANT"
                              ELSE StepUpRefusal(call.result)
                IN  /\ challenges' = call.challenges
                    /\ hist' = [hist EXCEPT ![req.challengeId] =
                                   Append(@, VerifyRecord(req, call, action))]
                    /\ tokens' = IF call.result.valid
                                 THEN tokens \cup {[userId |-> call.result.userId,
                                                    riskScore |-> Frac(2, 10),
                                                    via |-> "step-up",
                                                    challengeId |-> req.challengeId]}
                                 ELSE tokens
        /\ UNCHANGED <<clientVars, limiterVars>>
        /\ UNCHANGED <<now, biometricProfiles, issued, loginReq, started, evaluation>>

InitCommon ==
    /\ now = 0
    /\ challenges = <<>>
    /\ issued = 0
    /\ loginReq = NoLogin
    /\ started = [login |-> 0, stepUp |-> 0, risk |-> 0]
    /\ tokens = {}
    /\ hist = <<>>
    /\ evaluation = NoEvaluation
    /\ estimator = NewEstimator(FALSE)
    /\ prediction = NoPrediction
    /\ capture = NewCapture(0)
    /\ modal = MountStepUpChallenge
    /\ typing = NoTyping
    /\ rateStore = <<>>
    /\ admitted = NoneAdmitted

InitChallenge ==
    /\ InitCommon
    /\ stepReq = [s \in StepSlots |-> IdleStep]
    /\ biometricProfiles = [u \in Users |-> SeedProfile(5, 0, 0)]

NextChallenge ==
    \/ Tick
    \/ \E u \in Users, type \in TypesDrawn : issued = 0 /\ CreateChallengeCall(u, type)
    \/ \E s \in StepSlots, id \in 1..issued :
          \E solution \in (IF id \in DOMAIN challenges
                           THEN SolutionsFor(challenges[id].type)
                           ELSE StaleSolutions) :
              StepUpReceive(s, id, solution)
    \/ \E s \in StepSlots : StepUp(s)

SpecChallenge == InitChallenge /\ [][NextChallenge]_vars

-----------------------------------------------------------------------------
(* Properties of the challenge lifecycle, checked under SpecChallenge       *)

\* the verify calls made on challenge id, in the order they ran
Calls(id) == hist[id]

\* the first three verify calls on id met a stored, unexpired challenge and
\* carried a solution verifySolution rejects
ThreeIncorrect(id) ==
    /\ Len(Calls(id)) >= 3
    /\ \A k \in 1..3 :
          /\ Calls(id)[k].present
          /\ ~Calls(id)[k].late
          /\ ~Calls(id)[k].correct

C2_ExpiredRejected ==
    \A id \in DOMAIN hist : \A k \in 1..Len(Calls(id)) :
        Calls(id)[k].late =>
            /\ ~Calls(id)[k].result.valid
            /\ Calls(id)[k].result = Expired
            /\ ~Calls(id)[k].kept
            /\ id \notin DOMAIN challenges

C2_Witness ==
    \E id \in DOMAIN hist : \E k \in 1..Len(Calls(id)) :
        /\ Calls(id)[k].late
        /\ Calls(id)[k].correct
        /\ ~Calls(id)[k].completedBefore
        /\ Calls(id)[k].attemptsBefore < MaxAttempts
        /\ Calls(id)[k].result = Expired

\* C3: of two verify calls that both arrived while the challenge had
\* maxAttempts - 1 attempts, at most one reaches verifySolution, so they are
\* never both accepted.
C3_LastAttemptOnce ==
    \A id \in DOMAIN hist : \A i, j \in 1..Len(Calls(id)) :
        (i < j /\ Calls(id)[i].arrived = MaxAttempts - 1
               /\ Calls(id)[j].arrived = MaxAttempts - 1) =>
            /\ ~(Calls(id)[i].evaluated /\ Calls(id)[j].evaluated)
            /\ ~(Calls(id)[i].result.valid /\ Calls(id)[j].result.valid)

C3_Witness ==
    \E id \in DOMAIN hist : \E i, j \in 1..Len(Calls(id)) :
        /\ i < j
        /\ Calls(id)[i].arrived = MaxAttempts - 1
        /\ Calls(id)[j].arrived = MaxAttempts - 1
        /\ Calls(id)[i].evaluated
        /\ Calls(id)[j].correct
        /\ Calls(id)[j].result = MaxExceeded

\* C11: verify checks unknown id, expiry, completion and the attempt limit
\* in that order.  A call after expiresAt on a challenge that is completed
\* or has used all its attempts returns "Challenge expired" and removes it;
\* a call before expiresAt on a completed challenge returns "Challenge
\* already completed", leaves it stored and leaves its attempts as they were;
\* a call on an id the store does not hold returns "not found".
C11_CheckOrder ==
    \A id \in DOMAIN hist : \A k \in 1..Len(Calls(id)) :
        LET c == Calls(id)[k]
        IN  /\ ~c.present => c.result = NotFound
            /\ (c.late /\ (c.completedBefore \/ c.attemptsBefore >= MaxAttempts)) =>
                   c.result = Expired /\ ~c.kept
            /\ (c.present /\ ~c.late /\ c.completedBefore) =>
                   /\ c.result = AlreadyCompleted
                   /\ c.kept
                   /\ c.attemptsAfter = c.attemptsBefore
            /\ (c.present /\ ~c.late /\ ~c.completedBefore
                    /\ c.attemptsBefore >= MaxAttempts) =>
                   c.result = MaxExceeded /\ ~c.kept

C11_Witness ==
    \E id \in DOMAIN hist : \E i, j \in 1..Len(Calls(id)) :
        /\ i < j
        /\ Calls(id)[i].completedBefore /\ ~Calls(id)[i].late
        /\ Calls(id)[i].result = AlreadyCompleted
        /\ Calls(id)[j].completedBefore /\ Calls(id)[j].late
        /\ Calls(id)[j].result = Expired

\* a call after expiresAt on a challenge whose attempts are used up
C11_ExpiredAndExhausted ==
    \E id \in DOMAIN hist : \E k \in 1..Len(Calls(id)) :
        /\ Calls(id)[k].late
        /\ Calls(id)[k].attemptsBefore >= MaxAttempts
        /\ Calls(id)[k].result = Expired

\* C12 as stated: a security-question solution is accepted exactly when its
\* normalized form is within similarity 0.80 of the normalized answer; a
\* solution at one edit with similarity >= 0.80 is accepted, one with
\* similarity < 0.80 (empty after normalization or a single letter
\* included) is rejected.
C12_FuzzyAsStated ==
    \A id \in DOMAIN hist : \A k \in 1..Len(Calls(id)) :
        LET c == Calls(id)[k]
        IN  (c.evaluated /\ c.type = "security_questions") =>
                /\ (c.distance <= 1 /\ c.similar => c.result.valid)
                /\ (~c.similar => ~c.result.valid)

\* the half of C12 the code meets: a solution one edit away from the answer
\* with similarity >= 0.80 is accepted
C12_OneTypoAccepted ==
    \A id \in DOMAIN hist : \A k \in 1..Len(Calls(id)) :
        LET c == Calls(id)[k]
        IN  (c.evaluated /\ c.type = "security_questions"
                /\ c.distance <= 1 /\ c.similar) => c.result.valid

C12_OneTypoReached ==
    \E id \in DOMAIN hist : \E k \in 1..Len(Calls(id)) :
        /\ Calls(id)[k].evaluated /\ Calls(id)[k].type = "security_questions"
        /\ Calls(id)[k].distance = 1 /\ Calls(id)[k].result.valid

\* C18, as amended: a verify that accepts the solution marks the challenge
\* completed and leaves it in the store; the calls that find it expired or
\* find its attempts used up are the ones that remove it.
C18_Removal ==
    \A id \in DOMAIN hist : \A k \in 1..Len(Calls(id)) :
        LET c == Calls(id)[k]
        IN  /\ c.result.valid =>
                   c.kept /\ (k = Len(Calls(id)) =>
                                 id \in DOMAIN challenges /\ challenges[id].completed)
            /\ c.result = Expired => ~c.kept
            /\ c.result = MaxExceeded => ~c.kept

\* C18 as stated: after a verify that returns Accepted the id is no longer
\* in the store.
C18_AsStated ==
    \A id \in DOMAIN hist : \A k \in 1..Len(Calls(id)) :
        Calls(id)[k].result.valid => ~Calls(id)[k].kept

C18_Witness ==
    \E id \in DOMAIN hist :
        /\ Len(Calls(id)) >= 1
        /\ Calls(id)[Len(Calls(id))].result.valid
        /\ id \in DOMAIN challenges
        /\ now > challenges[id].expiresAt

\* C19: over the verify calls on one id at most one is accepted, and after a
\* call that accepted, found the challenge expired, or left its attempts at
\* maxAttempts, no later call is accepted or returns a mismatch (the value
\* that carries attemptsRemaining).
Terminal(c) ==
    \/ c.result.valid
    \/ c.result = Expired
    \/ c.result = MaxExceeded
    \/ c.attemptsAfter >= MaxAttempts

C19_Absorbing ==
    \A id \in DOMAIN hist : \A i, j \in 1..Len(Calls(id)) :
        i < j =>
            /\ ~(Calls(id)[i].result.valid /\ Calls(id)[j].result.valid)
            /\ Terminal(Calls(id)[i]) =>
                   /\ ~Calls(id)[j].result.valid
                   /\ "attemptsRemaining" \notin DOMAIN Calls(id)[j].result
                   /\ Calls(id)[j].action = "DENY"

C19_Witness ==
    \E id \in DOMAIN hist : \E i, j \in 1..Len(Calls(id)) :
        /\ i < j
        /\ Calls(id)[i].result.valid
        /\ Calls(id)[j].correct
        /\ ~Calls(id)[j].late
        /\ Calls(id)[j].result = AlreadyCompleted

\* C10 as stated: a verify call with a malformed solution (empty or
\* punctuation only, or without a digit for a math challenge) returns a
\* value that is not Accepted.
C10_MalformedNeverMatches ==
    \A id \in DOMAIN hist : \A k \in 1..Len(Calls(id)) :
        Calls(id)[k].malformed => ~Calls(id)[k].result.valid

\* the verify calls on id that reached verifySolution
Evaluations(id) == {k \in 1..Len(Calls(id)) : Calls(id)[k].evaluated}

-----------------------------------------------------------------------------
(* The fusion engine on its own: RiskCalculator.calculateRisk called on     *)
(* what the baseline store holds                                            *)

RiskUser == "u1"

\* features as clients report them: close to the demo baseline, far from
\* it, with negative hold times (z.number() admits them), and an object
\* without its holdTimes array
MatchFeatures == Features(<<90>>, <<110>>, Frac(5, 100), Num(200))

FarFeatures == Features(<<200, 300>>, <<200>>, Frac(1, 2), Num(100))

NegativeFeatures == Features(<<0 - 100>>, <<110>>, Frac(5, 100), Num(200))

NoHoldTimes == [MatchFeatures EXCEPT !.holdTimes = <<>>, !.present = {"flightTimes"}]

\* keys whose press and release carry the same timestamp (text entered by
\* a script or an autofill): every hold time is 0
ZeroHoldFeatures == Features(<<0, 0>>, <<110>>, Frac(5, 100), Num(200))

EngineFeatures == {MatchFeatures, FarFeatures, NegativeFeatures, NoHoldTimes,
                   ZeroHoldFeatures}

EngineClientScores == {Num(0), Frac(1, 5), Num(1)}

\* user.biometricProfile when the store has no entry for the user
AbsentProfile == [exists |-> FALSE, createdAt |-> 0, lastUpdated |-> 0, samples |-> <<>>]

MaxUpdates == 1

\* UserManager.updateBiometricProfile(userId, features) with features that
\* passed biometricSchema
UpdateCall(userId, features) ==
    /\ BiometricSchemaOk(features)
    /\ biometricProfiles[userId].exists
    /\ started' = [started EXCEPT !.risk = @ + 1]
    /\ biometricProfiles' = UpdateBiometricProfile(biometricProfiles, userId, features, now)
    /\ evaluation' = NoEvaluation
    /\ UNCHANGED <<clientVars, limiterVars>>
    /\ UNCHANGED <<now, challenges, issued, loginReq, stepReq, tokens, hist>>

\* UserManager.resetBiometricProfile(userId)
ResetBiometricProfile(userId) ==
    /\ biometricProfiles[userId].exists
    /\ biometricProfiles[userId] # EmptyProfile(now)
    /\ biometricProfiles' = [biometricProfiles EXCEPT ![userId] = EmptyProfile(now)]
    /\ evaluation' = NoEvaluation
    /\ UNCHANGED <<clientVars, limiterVars>>
    /\ UNCHANGED <<now, challenges, issued, loginReq, stepReq, started, tokens, hist>>

\* a calculateRisk that stores the sample it has just scored
CalculateRiskCallStoring(userId, currentFeatures, clientRiskScore) ==
    /\ evaluation' = [called |-> TRUE,
                      features |-> currentFeatures,
                      clientRiskScore |-> clientRiskScore,
                      at |-> now,
                      risk |-> CalculateRisk(currentFeatures, biometricProfiles[userId],
                                             clientRiskScore, now)]
    /\ biometricProfiles' =
           IF BiometricSchemaOk(currentFeatures)
           THEN UpdateBiometricProfile(biometricProfiles, userId, currentFeatures, now)
           ELSE biometricProfiles
    /\ UNCHANGED <<clientVars, limiterVars>>
    /\ UNCHANGED <<now, challenges, issued, loginReq, stepReq, started, tokens, hist>>

\* RiskCalculator.calculateRisk(currentFeatures, userProfile, clientRiskScore)
\* on the user's stored profile; evaluation keeps the arguments and the
\* value the caller receives
CalculateRiskCall(userId, currentFeatures, clientRiskScore) ==
    /\ evaluation' = [called |-> TRUE,
                      features |-> currentFeatures,
                      clientRiskScore |-> clientRiskScore,
                      at |-> now,
                      risk |-> CalculateRisk(currentFeatures, biometricProfiles[userId],
                                             clientRiskScore, now)]
    /\ UNCHANGED <<clientVars, limiterVars>>
    /\ UNCHANGED <<now, biometricProfiles, challenges, issued, loginReq, stepReq,
                   started, tokens, hist>>

InitRisk ==
    /\ InitCommon
    /\ stepReq = [s \in StepSlots |-> IdleStep]
    /\ \E profile \in {AbsentProfile, EmptyProfile(0), SeedProfile(5, 0, 0)} :
          biometricProfiles = [u \in {RiskUser} |-> profile]

NextRisk ==
    \/ Tick
    \/ \E f \in EngineFeatures : started.risk < MaxUpdates /\ UpdateCall(RiskUser, f)
    \/ ResetBiometricProfile(RiskUser)
    \/ \E f \in EngineFeatures, c \in EngineClientScores : CalculateRiskCall(RiskUser, f, c)

SpecRisk == InitRisk /\ [][NextRisk]_vars

-----------------------------------------------------------------------------
(* Properties of the fusion engine, checked under SpecRisk                  *)

\* the profile the last calculateRisk call read
EvaluatedProfile == biometricProfiles[RiskUser]

\* C7 as stated: finalScore and confidence lie in [0, 1] for every feature
\* vector, every profile (negative historical means included) and every
\* client score.
C7_ScoresInUnit ==
    evaluation.called =>
        /\ InUnit(evaluation.risk.finalScore)
        /\ InUnit(evaluation.risk.confidence)

\* C8: with no profile or a profile without samples the engine returns the
\* factors 0.4, 0.4, 0.5, 0.3, 0.3 and the client's score, and confidence
\* 0.3.
C8_ColdStart ==
    (evaluation.called /\ IsNewUser(EvaluatedProfile)) =>
        /\ evaluation.risk.factors =
               [temporal |-> Frac(4, 10), behavioral |-> Frac(4, 10),
                consistency |-> Frac(5, 10), deviation |-> Frac(3, 10),
                velocity |-> Frac(3, 10), client |-> evaluation.clientRiskScore]
        /\ evaluation.risk.confidence = Frac(3, 10)

C8_Witness ==
    /\ evaluation.called
    /\ EvaluatedProfile.exists
    /\ Len(EvaluatedProfile.samples) = 0
    /\ evaluation.clientRiskScore = Frac(1, 5)
    /\ evaluation.risk.analysis = "new-user"

\* C20: a calculateRisk call changes nothing in the baseline store: the
\* profile it was given keeps its samples, createdAt and lastUpdated, and
\* the store changes only in the steps of updateBiometricProfile and
\* resetBiometricProfile, none of which is an evaluation.
C20_EvaluateIsPure ==
    [][/\ (evaluation'.called /\ evaluation' # evaluation) =>
              biometricProfiles' = biometricProfiles
       /\ biometricProfiles' # biometricProfiles => ~evaluation'.called]_vars

\* an evaluation ran on a profile that holds samples and computed the
\* factors from it
C20_Witness ==
    /\ evaluation.called
    /\ evaluation.risk.analysis = "computed"
    /\ evaluation.at > 0
    /\ Len(EvaluatedProfile.samples) = 6

\* the finalScore the last call would have returned had the client sent
\* clientRiskScore, everything else being the same
FinalScoreWith(clientRiskScore) ==
    CalculateRisk(evaluation.features, EvaluatedProfile, clientRiskScore,
                  evaluation.at).finalScore

\* the last call computed the factors from a profile that holds samples
Fused == evaluation.called /\ evaluation.risk.analysis = "computed"

\* C21 as stated: for a fixed feature vector and a fixed non-empty profile,
\* two evaluations that differ only in clientRiskScore within [0, 1] have
\* finalScores at most 0.10, the client weight, apart.
C21_ClientWithinWeight ==
    Fused =>
        \A c \in EngineClientScores :
            Le(Abs(Sub(FinalScoreWith(c), evaluation.risk.finalScore)), Frac(1, 10))

\* What the engine does bound: the two finalScores are at most 2/11 apart
\* (the client weight over the weights left when temporal and behavioral
\* are both NaN), and no change of clientRiskScore alone turns DENY into
\* GRANT or GRANT into DENY.
C21_ClientNeverDecides ==
    Fused =>
        \A c \in EngineClientScores :
            /\ Le(Abs(Sub(FinalScoreWith(c), evaluation.risk.finalScore)), Frac(2, 11))
            /\ {Decide(FinalScoreWith(c)), Decide(evaluation.risk.finalScore)}
                   # {"DENY", "GRANT"}

\* an evaluation in which a factor was NaN and left out of the fusion
C21_FactorDropped ==
    /\ Fused
    /\ IsNaN(evaluation.risk.factors.temporal)
    /\ evaluation.clientRiskScore = Num(1)

\* hold times a client could have reported in place of those of the last
\* call, everything else being the same
HoldVariants ==
    { <<90>>, <<80>>, <<100>>, <<120, 130>>, <<40>>, <<200, 300>>, <<0>>, <<60, 56>> }

\* the mean of the avgHoldTime values the profile holds
HistoricalHoldMean == CalculateAverage(MapSamples(EvaluatedProfile.samples, "avgHoldTime"))

\* |current mean hold time - historical mean|
HoldGap(holdTimes) == Abs(Sub(CalculateAverage(NumSeq(holdTimes)), HistoricalHoldMean))

\* the temporal factor of the last call had the hold times been holdTimes
TemporalWith(holdTimes) ==
    CalculateTemporalRisk([evaluation.features EXCEPT !.holdTimes = holdTimes],
                          EvaluatedProfile)

\* C26: against a profile with a positive historical mean hold time, hold
\* times farther from that mean than those evaluated give a temporal factor
\* that is not smaller, and hold times nearer to it one that is not larger.
C26_TemporalMonotone ==
    (Fused /\ Gt(HistoricalHoldMean, Num(0))) =>
        \E evaluated \in {evaluation.features.holdTimes} :
            /\ evaluation.risk.factors.temporal = TemporalWith(evaluated)
            /\ \A other \in HoldVariants :
                   /\ Le(HoldGap(evaluated), HoldGap(other)) =>
                          ~Lt(TemporalWith(other), TemporalWith(evaluated))
                   /\ Le(HoldGap(other), HoldGap(evaluated)) =>
                          ~Lt(TemporalWith(evaluated), TemporalWith(other))

\* an evaluation whose hold risk is below its cap, with hold times among
\* the variants that give a strictly larger and a strictly smaller factor
C26_Witness ==
    /\ Fused
    /\ Gt(HistoricalHoldMean, Num(0))
    /\ \E nearer, farther \in HoldVariants :
           /\ Lt(HoldGap(nearer), HoldGap(evaluation.features.holdTimes))
           /\ Lt(HoldGap(evaluation.features.holdTimes), HoldGap(farther))
           /\ Lt(TemporalWith(nearer), evaluation.risk.factors.temporal)
           /\ Lt(evaluation.risk.factors.temporal, TemporalWith(farther))

\* The engine on its own, for C32: called on an absent or empty profile with
\* a clientRiskScore in [0, 1], calculateRisk returns a finalScore strictly
\* between the two thresholds, 0.355 + 0.1 * clientRiskScore.
C32_EngineNoHistory ==
    (/\ evaluation.called
     /\ IsNewUser(EvaluatedProfile)
     /\ InUnit(evaluation.clientRiskScore)) =>
        /\ Lt(GrantThreshold, evaluation.risk.finalScore)
        /\ Lt(evaluation.risk.finalScore, DenyThreshold)
        /\ evaluation.risk.finalScore =
               Add(Frac(355, 1000), Mul(Frac(1, 10), evaluation.clientRiskScore))

\* the engine was called for a user the store has no profile for
C32_AbsentEvaluated ==
    /\ evaluation.called
    /\ ~EvaluatedProfile.exists
    /\ evaluation.clientRiskScore = Num(1)

\* the call read a field the features object does not carry
EngineFailed ==
    /\ evaluation.called
    /\ ~IsNewUser(EvaluatedProfile)
    /\ "holdTimes" \notin evaluation.features.present

\* C9: calculateRisk always returns; when the computation fails (features
\* without holdTimes) the value returned has finalScore 0.8 and confidence
\* 0, which the login thresholds map to DENY.
C9_FailsClosed ==
    evaluation.called =>
        /\ evaluation.risk.outcome = "returned"
        /\ EngineFailed =>
               /\ evaluation.risk.finalScore = Frac(8, 10)
               /\ evaluation.risk.confidence = Num(0)
               /\ Decide(evaluation.risk.finalScore) = "DENY"

C9_Witness ==
    /\ EngineFailed
    /\ evaluation.risk.analysis = "failed"

-----------------------------------------------------------------------------
(* The baseline store on its own: profiles created, appended to and reset   *)

\* a long-lived account: the demo profile and the samples of 44 later
\* logins that matched it, one short of the limit
MatureProfile ==
    [SeedProfile(5, 0, 0) EXCEPT
        !.samples = @ \o [i \in 1..(ProfileLimit - 6) |-> NewSample(MatchFeatures, 0)]]

\* the sampleCount values createBiometricProfile can draw, at both ends
\* (Math.floor(Math.random() * 15) + 5)
SampleCounts == {5, 19}

NewUsers == {"u3"}

MaxAppends == 2

\* UserManager.createUser(username, password): a profile of sampleCount
\* synthetic samples is stored under the new user's id
CreateUser(userId, sampleCount) ==
    /\ userId \notin DOMAIN biometricProfiles
    /\ biometricProfiles' =
           [u \in (DOMAIN biometricProfiles) \cup {userId} |->
               IF u = userId THEN SeedProfile(sampleCount, now, now)
               ELSE biometricProfiles[u]]
    /\ evaluation' = NoEvaluation
    /\ UNCHANGED <<clientVars, limiterVars>>
    /\ UNCHANGED <<now, challenges, issued, loginReq, stepReq, started, tokens, hist>>

InitStore ==
    /\ InitCommon
    /\ stepReq = [s \in StepSlots |-> IdleStep]
    /\ biometricProfiles = [u \in Users |->
                               IF u = "u1" THEN SeedProfile(5, 0, 0) ELSE MatureProfile]

NextStore ==
    \/ Tick
    \/ \E u \in NewUsers, n \in SampleCounts : CreateUser(u, n)
    \/ \E u \in DOMAIN biometricProfiles, f \in EngineFeatures :
          started.risk < MaxAppends /\ UpdateCall(u, f)
    \/ \E u \in DOMAIN biometricProfiles : ResetBiometricProfile(u)

SpecStore == InitStore /\ [][NextStore]_vars

\* C6: every stored profile holds at most 50 samples, whatever creations,
\* appends and resets came before.
C6_ProfileBounded ==
    \A u \in DOMAIN biometricProfiles :
        Len(biometricProfiles[u].samples) <= ProfileLimit

\* two samples were appended to the account that held 49: the profile is
\* full and its oldest sample is gone
C6_Witness ==
    LET samples == biometricProfiles["u2"].samples
    IN  /\ Len(samples) = ProfileLimit
        /\ samples[ProfileLimit - 1] = NewSample(FarFeatures, now)
        /\ samples[ProfileLimit] = NewSample(NegativeFeatures, now)
        /\ samples[1] = SyntheticSample
        /\ samples[5] # SyntheticSample

\* C17: an append to a profile that holds 50 samples leaves 50: the former
\* entries 2..50 in their order, then the new sample; the former first
\* entry is the one dropped.
C17_OldestDropped ==
    [][\A u \in DOMAIN biometricProfiles :
          (/\ started'.risk = started.risk + 1
           /\ biometricProfiles'[u] # biometricProfiles[u]
           /\ Len(biometricProfiles[u].samples) = ProfileLimit) =>
              LET old == biometricProfiles[u].samples
                  new == biometricProfiles'[u].samples
              IN  /\ Len(new) = ProfileLimit
                  /\ \A i \in 1..(ProfileLimit - 1) : new[i] = old[i + 1]
                  /\ \E f \in EngineFeatures :
                        /\ BiometricSchemaOk(f)
                        /\ new[ProfileLimit] = NewSample(f, now)]_vars

\* the full profile took one more sample: the sample appended before it
\* moved down one place and four of the five seed samples are left
C17_Witness ==
    LET samples == biometricProfiles["u2"].samples
    IN  /\ Len(samples) = ProfileLimit
        /\ samples[ProfileLimit - 1] = NewSample(NegativeFeatures, now)
        /\ samples[ProfileLimit] = NewSample(FarFeatures, now)
        /\ samples[4] = SyntheticSample
        /\ samples[5] = NewSample(MatchFeatures, 0)

-----------------------------------------------------------------------------
(* The server: logins, step-up requests, the clock                          *)

\* a features object whose holdTimes array is empty (z.array(z.number())
\* sets no minimum length)
EmptyHoldFeatures == Features(<<>>, <<110>>, Frac(5, 100), Num(200))

LoginFeatures == {MatchFeatures, FarFeatures, NegativeFeatures, EmptyHoldFeatures}

\* riskScore values clients send; the last one fails loginSchema
LoginClientScores == {Frac(1, 5), Num(1), Frac(3, 2)}

\* the challenge types the server model draws
MainTypes == {"math", "security_questions"}

\* the step-up connection the server model follows
MainSlots == {1}

MaxLogins == 2

\* what a step-up client types: the answer, or something else
MainSolutionsFor(type) == {AnswerOf(type), <<"a", "b", "c">>}

\* a login that stores the session summary before it checks the password
LoginStoringFirst(userId, passwordOk, riskScore, features, types) ==
    LET profile == biometricProfiles[userId]
        request == [n |-> started.login + 1, user |-> userId, valid |-> passwordOk,
                    riskScore |-> riskScore, features |-> features]
        refused(status) ==
            request @@ [action |-> "DENY", status |-> status, finalScore |-> NaN,
                        confidence |-> NaN, analysis |-> "none",
                        samplesBefore |-> Len(profile.samples),
                        samplesAfter |-> Len(profile.samples),
                        appended |-> FALSE, challengeId |-> 0, token |-> FALSE]
        answered(riskAnalysis, updated, action) ==
            request @@ [action |-> action, status |-> 200,
                        finalScore |-> riskAnalysis.finalScore,
                        confidence |-> riskAnalysis.confidence,
                        analysis |-> riskAnalysis.analysis,
                        samplesBefore |-> Len(profile.samples),
                        samplesAfter |-> Len(updated[userId].samples),
                        appended |-> updated[userId].samples # profile.samples,
                        challengeId |-> IF action = "STEP_UP" THEN issued + 1 ELSE 0,
                        token |-> action = "GRANT"]
    IN  /\ started.login < MaxLogins
        /\ started' = [started EXCEPT !.login = @ + 1]
        /\ IF ~LoginSchemaOk(riskScore, features)
           THEN /\ loginReq' = refused(400)
                /\ UNCHANGED <<biometricProfiles, challenges, issued, tokens, hist>>
           ELSE IF ~passwordOk
           THEN /\ loginReq' = [refused(500) EXCEPT
                                  !.samplesAfter = @ + 1, !.appended = TRUE]
                /\ biometricProfiles' = UpdateBiometricProfile(biometricProfiles, userId,
                                                                features, now)
                /\ UNCHANGED <<challenges, issued, tokens, hist>>
           ELSE \E riskAnalysis \in {CalculateRisk(features, profile, riskScore, now)},
                   updated \in {UpdateBiometricProfile(biometricProfiles, userId,
                                                       features, now)} :
                \E action \in {Decide(riskAnalysis.finalScore)} :
                /\ loginReq' = answered(riskAnalysis, updated, action)
                /\ biometricProfiles' = updated
                /\ IF action = "GRANT"
                   THEN /\ tokens' = tokens \cup {[userId |-> userId,
                                                    riskScore |-> riskAnalysis.finalScore,
                                                    via |-> "login", challengeId |-> 0]}
                        /\ UNCHANGED <<challenges, issued, hist>>
                   ELSE IF action = "STEP_UP"
                   THEN /\ issued' = issued + 1
                        /\ \E type \in types :
                              challenges' = CreateChallenge(challenges, issued + 1,
                                                            userId, type, now)
                        /\ hist' = [k \in (DOMAIN hist) \cup {issued + 1} |->
                                       IF k = issued + 1 THEN <<>> ELSE hist[k]]
                        /\ UNCHANGED tokens
                   ELSE UNCHANGED <<challenges, issued, tokens, hist>>
        /\ evaluation' = NoEvaluation
        /\ UNCHANGED <<clientVars, limiterVars>>
        /\ UNCHANGED <<now, stepReq>>

\* a login that appends the session summary first and scores it afterwards
LoginUpdateFirst(userId, passwordOk, riskScore, features, types) ==
    LET profile == biometricProfiles[userId]
        request == [n |-> started.login + 1, user |-> userId, valid |-> passwordOk,
                    riskScore |-> riskScore, features |-> features]
        refused(status) ==
            request @@ [action |-> "DENY", status |-> status, finalScore |-> NaN,
                        confidence |-> NaN, analysis |-> "none",
                        samplesBefore |-> Len(profile.samples),
                        samplesAfter |-> Len(profile.samples),
                        appended |-> FALSE, challengeId |-> 0, token |-> FALSE]
        answered(riskAnalysis, updated, action) ==
            request @@ [action |-> action, status |-> 200,
                        finalScore |-> riskAnalysis.finalScore,
                        confidence |-> riskAnalysis.confidence,
                        analysis |-> riskAnalysis.analysis,
                        samplesBefore |-> Len(profile.samples),
                        samplesAfter |-> Len(updated[userId].samples),
                        appended |-> updated[userId].samples # profile.samples,
                        challengeId |-> IF action = "STEP_UP" THEN issued + 1 ELSE 0,
                        token |-> action = "GRANT"]
    IN  /\ started.login < MaxLogins
        /\ started' = [started EXCEPT !.login = @ + 1]
        /\ IF ~LoginSchemaOk(riskScore, features)
           THEN /\ loginReq' = refused(400)
                /\ UNCHANGED <<biometricProfiles, challenges, issued, tokens, hist>>
           ELSE IF ~passwordOk
           THEN /\ loginReq' = refused(500)
                /\ UNCHANGED <<biometricProfiles, challenges, issued, tokens, hist>>
           ELSE \E updated \in {UpdateBiometricProfile(biometricProfiles, userId,
                                                       features, now)} :
                \E riskAnalysis \in {CalculateRisk(features, updated[userId],
                                                   riskScore, now)} :
                \E action \in {Decide(riskAnalysis.finalScore)} :
                /\ loginReq' = answered(riskAnalysis, updated, action)
                /\ biometricProfiles' = updated
                /\ IF action = "GRANT"
                   THEN /\ tokens' = tokens \cup {[userId |-> userId,
                                                    riskScore |-> riskAnalysis.finalScore,
                                                    via |-> "login", challengeId |-> 0]}
                        /\ UNCHANGED <<challenges, issued, hist>>
                   ELSE IF action = "STEP_UP"
                   THEN /\ issued' = issued + 1
                        /\ \E type \in types :
                              challenges' = CreateChallenge(challenges, issued + 1,
                                                            userId, type, now)
                        /\ hist' = [k \in (DOMAIN hist) \cup {issued + 1} |->
                                       IF k = issued + 1 THEN <<>> ELSE hist[k]]
                        /\ UNCHANGED tokens
                   ELSE UNCHANGED <<challenges, issued, tokens, hist>>
        /\ evaluation' = NoEvaluation
        /\ UNCHANGED <<clientVars, limiterVars>>
        /\ UNCHANGED <<now, stepReq>>

\* login(req, res).  bcrypt.compare inside validateUser is the handler's
\* only suspension point and precedes every read and write of the stores,
\* so what follows it runs as one step.  passwordOk is the outcome of the
\* credential check; types are the challenge types createChallenge draws
\* from.
Login(userId, passwordOk, riskScore, features, types) ==
    LET profile == biometricProfiles[userId]
        request == [n |-> started.login + 1, user |-> userId, valid |-> passwordOk,
                    riskScore |-> riskScore, features |-> features]
        refused(status) ==
            request @@ [action |-> "DENY", status |-> status, finalScore |-> NaN,
                        confidence |-> NaN, analysis |-> "none",
                        samplesBefore |-> Len(profile.samples),
                        samplesAfter |-> Len(profile.samples),
                        appended |-> FALSE, challengeId |-> 0, token |-> FALSE]
        answered(riskAnalysis, updated, action) ==
            request @@ [action |-> action, status |-> 200,
                        finalScore |-> riskAnalysis.finalScore,
                        confidence |-> riskAnalysis.confidence,
                        analysis |-> riskAnalysis.analysis,
                        samplesBefore |-> Len(profile.samples),
                        samplesAfter |-> Len(updated[userId].samples),
                        appended |-> updated[userId].samples # profile.samples,
                        challengeId |-> IF action = "STEP_UP" THEN issued + 1 ELSE 0,
                        token |-> action = "GRANT"]
    IN  /\ started.login < MaxLogins
        /\ started' = [started EXCEPT !.login = @ + 1]
        /\ IF ~LoginSchemaOk(riskScore, features)
           THEN /\ loginReq' = refused(400)
                /\ UNCHANGED <<biometricProfiles, challenges, issued, tokens, hist>>
           ELSE IF ~passwordOk
           THEN /\ loginReq' = refused(500)
                /\ UNCHANGED <<biometricProfiles, challenges, issued, tokens, hist>>
           ELSE \E riskAnalysis \in {CalculateRisk(features, profile, riskScore, now)},
                   updated \in {UpdateBiometricProfile(biometricProfiles, userId,
                                                       features, now)} :
                \E action \in {Decide(riskAnalysis.finalScore)} :
                /\ loginReq' = answered(riskAnalysis, updated, action)
                /\ biometricProfiles' = updated
                /\ IF action = "GRANT"
                   THEN /\ tokens' = tokens \cup {[userId |-> userId,
                                                    riskScore |-> riskAnalysis.finalScore,
                                                    via |-> "login", challengeId |-> 0]}
                        /\ UNCHANGED <<challenges, issued, hist>>
                   ELSE IF action = "STEP_UP"
                   THEN /\ issued' = issued + 1
                        /\ \E type \in types :
                              challenges' = CreateChallenge(challenges, issued + 1,
                                                            userId, type, now)
                        /\ hist' = [k \in (DOMAIN hist) \cup {issued + 1} |->
                                       IF k = issued + 1 THEN <<>> ELSE hist[k]]
                        /\ UNCHANGED tokens
                   ELSE UNCHANGED <<challenges, issued, tokens, hist>>
        /\ evaluation' = NoEvaluation
        /\ UNCHANGED <<clientVars, limiterVars>>
        /\ UNCHANGED <<now, stepReq>>

\* the demo account as created, and an account whose profile has just been
\* reset
Init ==
    /\ InitCommon
    /\ stepReq = [s \in StepSlots |-> IdleStep]
    /\ biometricProfiles = [u \in Users |->
                               IF u = "u1" THEN SeedProfile(5, 0, 0) ELSE EmptyProfile(0)]

Next ==
    \/ Tick
    \/ \E u \in Users, ok \in BOOLEAN, c \in LoginClientScores, f \in LoginFeatures :
          Login(u, ok, c, f, MainTypes)
    \/ \E s \in MainSlots, id \in DOMAIN challenges :
          \E solution \in MainSolutionsFor(challenges[id].type) :
              started.stepUp < MaxLogins /\ StepUpReceive(s, id, solution)
    \/ \E s \in MainSlots : StepUp(s)

Spec == Init /\ [][Next]_vars

-----------------------------------------------------------------------------
(* Properties of the login decision, checked under Spec                     *)

\* the last login passed the schema and the credential check: calculateRisk
\* ran and the thresholds decided the answer
Decided == loginReq.n > 0 /\ loginReq.status = 200

\* C4 as stated: the login handler appends the sample to the user's profile
\* exactly when it answers GRANT or STEP_UP; a denied login appends nothing.
C4_AppendOnlyWhenNotDenied ==
    loginReq.n > 0 =>
        (loginReq.appended <=> loginReq.action \in {"GRANT", "STEP_UP"})

\* C5 as stated: GRANT exactly when finalScore < 0.3, STEP_UP exactly when
\* 0.3 <= finalScore <= 0.7 (a challenge is created), DENY exactly when
\* finalScore > 0.7.
C5_ThresholdsAsStated ==
    Decided =>
        /\ loginReq.action = "GRANT" <=> Lt(loginReq.finalScore, Frac(3, 10))
        /\ loginReq.action = "STEP_UP" <=>
               (Le(Frac(3, 10), loginReq.finalScore) /\ Le(loginReq.finalScore, Frac(7, 10)))
        /\ loginReq.action = "DENY" <=> Gt(loginReq.finalScore, Frac(7, 10))
        /\ loginReq.action = "STEP_UP" <=> loginReq.challengeId > 0

\* C25: a step that creates a challenge runs the sweep: afterwards no stored
\* challenge has now > expiresAt; the challenges removed are exactly the
\* expired ones, verified or not, and those that stay are unchanged.
C25_SweepOnCreate ==
    [][issued' = issued + 1 =>
          /\ \A id \in DOMAIN challenges' : ~(now' > challenges'[id].expiresAt)
          /\ DOMAIN challenges' =
                 {id \in DOMAIN challenges : ~(now > challenges[id].expiresAt)}
                     \cup {issued + 1}
          /\ \A id \in (DOMAIN challenges) \cap (DOMAIN challenges') :
                 challenges'[id] = challenges[id]]_vars

\* the second createChallenge swept the first challenge, which had expired
\* without a single verify call made on it
C25_Witness ==
    /\ issued = 2
    /\ DOMAIN challenges = {2}
    /\ hist[1] = <<>>
    /\ challenges[2].createdAt = now

\* a challenge that has not expired stays through the sweep of a later
\* createChallenge
C25_UnexpiredKept ==
    /\ issued = 2
    /\ DOMAIN challenges = {1, 2}
    /\ challenges[1].expiresAt = now
    /\ challenges[2].createdAt = now

\* this step runs the handler of the step-up request on connection s up to
\* its answer, verifyChallenge included
Handled(s) ==
    /\ stepReq[s].pc = "received"
    /\ stepReq'[s].pc = "idle"
    /\ StepUpSchemaOk(stepReq[s].solution)

\* C29: a verify call answered "Challenge not found" or "Challenge already
\* completed" leaves the challenge store as it was, and a verify call on one
\* id leaves every other stored challenge in the store and unchanged, and
\* adds none.
C29_VerifyFrame ==
    [][\A s \in StepSlots :
          Handled(s) =>
              LET id == stepReq[s].challengeId
                  call == hist'[id][Len(hist'[id])]
              IN  /\ Len(hist'[id]) = Len(hist[id]) + 1
                  /\ call.result \in {NotFound, AlreadyCompleted} =>
                         challenges' = challenges
                  /\ DOMAIN challenges' \subseteq DOMAIN challenges
                  /\ \A other \in (DOMAIN challenges) \ {id} :
                         /\ other \in DOMAIN challenges'
                         /\ challenges'[other] = challenges[other]]_vars

\* two challenges are stored; the first was completed by one verify call and
\* a second call on it was answered "already completed"; the other
\* challenge is as created
C29_Witness ==
    /\ DOMAIN challenges = {1, 2}
    /\ Len(hist[1]) = 2
    /\ hist[1][1].evaluated
    /\ hist[1][2].result = AlreadyCompleted
    /\ challenges[1].completed
    /\ challenges[2] = ChallengeData(2, challenges[2].userId, challenges[2].type,
                                      challenges[2].createdAt)

\* a verify call on an id the store no longer holds, with another challenge
\* stored
C29_UnknownId ==
    /\ DOMAIN challenges = {2}
    /\ Len(hist[1]) = 1
    /\ hist[1][1].result = NotFound

\* a feature vector with an empty timing array or a negative timing value
MalformedFeatures(features) ==
    \/ Len(features.holdTimes) = 0
    \/ Len(features.flightTimes) = 0
    \/ \E i \in 1..Len(features.holdTimes) : features.holdTimes[i] < 0
    \/ \E i \in 1..Len(features.flightTimes) : features.flightTimes[i] < 0

\* C22 as stated: a login whose feature vector has an empty holdTimes or
\* flightTimes array or a negative timing value is refused before
\* calculateRisk runs and before the user's profile is modified.
C22_MalformedRejected ==
    (loginReq.n > 0 /\ MalformedFeatures(loginReq.features)) =>
        /\ loginReq.status # 200
        /\ loginReq.analysis = "none"
        /\ ~loginReq.appended

\* What the caller does reject before the engine and the store: a request
\* that fails loginSchema (riskScore outside [0, 1], errorRate outside
\* [0, 1], a negative typingSpeed, a missing array) or the credential
\* check.
C22_SchemaRejected ==
    (loginReq.n > 0
        /\ (~LoginSchemaOk(loginReq.riskScore, loginReq.features) \/ ~loginReq.valid)) =>
        /\ loginReq.status # 200
        /\ loginReq.analysis = "none"
        /\ ~loginReq.appended

\* this step answers a login request
LoginAnswered == loginReq'.n = loginReq.n + 1

\* C32: a login that reaches the engine (valid request, valid credentials)
\* for a user whose profile has no samples gets a finalScore strictly
\* between 0.3 and 0.7 whatever the riskScore in [0, 1] it sent, and is
\* answered STEP_UP with a challenge: never GRANT, never DENY, no token.
C32_NoHistoryStepUp ==
    (Decided /\ loginReq.samplesBefore = 0) =>
        /\ Lt(GrantThreshold, loginReq.finalScore)
        /\ Lt(loginReq.finalScore, DenyThreshold)
        /\ loginReq.analysis = "new-user"
        /\ loginReq.action = "STEP_UP"
        /\ loginReq.challengeId > 0
        /\ ~loginReq.token

\* the first login of a user without samples, sending riskScore 1, was
\* answered with a challenge created for that user
C32_Witness ==
    /\ Decided
    /\ loginReq.samplesBefore = 0
    /\ loginReq.riskScore = Num(1)
    /\ loginReq.action = "STEP_UP"
    /\ loginReq.challengeId \in DOMAIN challenges
    /\ challenges[loginReq.challengeId].userId = loginReq.user

\* C33: a login request whose credentials are invalid changes no biometric
\* and no challenge state: the engine is not called, every profile keeps its
\* samples, no challenge is created, swept or touched, and no token is
\* issued.
C33_InvalidCredentialsInert ==
    [][(LoginAnswered /\ ~loginReq'.valid) =>
           /\ biometricProfiles' = biometricProfiles
           /\ challenges' = challenges
           /\ issued' = issued
           /\ hist' = hist
           /\ tokens' = tokens
           /\ loginReq'.analysis = "none"
           /\ IsNaN(loginReq'.finalScore)
           /\ ~loginReq'.appended
           /\ loginReq'.challengeId = 0
           /\ loginReq'.action = "DENY"]_vars

\* a login with a wrong password and an otherwise valid request was refused
\* while an expired challenge of an earlier login was still stored
C33_Witness ==
    /\ loginReq.n = 2
    /\ ~loginReq.valid
    /\ loginReq.status = 500
    /\ LoginSchemaOk(loginReq.riskScore, loginReq.features)
    /\ \E id \in DOMAIN challenges : IsExpired(challenges[id], now)

\* The login handler on its own: the clock and POST /login for both users
NextLogin ==
    \/ Tick
    \/ \E u \in Users, ok \in BOOLEAN, c \in LoginClientScores, f \in LoginFeatures :
          Login(u, ok, c, f, MainTypes)

SpecLogin == Init /\ [][NextLogin]_vars

\* C34: a login that reaches the engine is decided on the profile as it
\* stood before the login: the score, confidence and analysis it answers
\* with are those of calculateRisk on the samples stored before this step,
\* and the sample of this session is appended to exactly those samples.
C34_DecidedOnEarlierProfile ==
    [][(LoginAnswered /\ loginReq'.status = 200) =>
           LET userId == loginReq'.user
               before == biometricProfiles[userId]
           IN  \E risk \in {CalculateRisk(loginReq'.features, before,
                                           loginReq'.riskScore, now)} :
               /\ loginReq'.finalScore = risk.finalScore
               /\ loginReq'.confidence = risk.confidence
               /\ loginReq'.analysis = risk.analysis
               /\ loginReq'.action = Decide(risk.finalScore)
               /\ loginReq'.samplesBefore = Len(before.samples)
               /\ biometricProfiles'[userId].samples =
                      PushSample(before.samples, NewSample(loginReq'.features, now))]_vars

\* two logins of the same user were scored: the second found one sample,
\* the one the first left, and was scored against it; the profile now holds
\* two
C34_Witness ==
    /\ Decided
    /\ loginReq.n = 2
    /\ loginReq.samplesBefore = 1
    /\ loginReq.analysis = "computed"
    /\ Len(biometricProfiles[loginReq.user].samples) = 2

\* the token generateToken signs in login: user and finalScore
LoginToken(userId, finalScore) ==
    [userId |-> userId, riskScore |-> finalScore, via |-> "login", challengeId |-> 0]

\* the token generateToken(user, 0.2) signs in stepUp
StepUpToken(userId, challengeId) ==
    [userId |-> userId, riskScore |-> Frac(2, 10), via |-> "step-up",
     challengeId |-> challengeId]

\* C31: a session token is issued only by a login whose credentials are
\* valid and whose finalScore is below the grant threshold, or by a step-up
\* request whose verify call returned valid, and then for the user who owns
\* the challenge; an answer DENY, RETRY or STEP_UP carries no token and
\* issues none.
C31_TokenOnlyOnGrant ==
    [][/\ tokens \subseteq tokens'
       /\ tokens' # tokens =>
              \/ LoginAnswered /\ loginReq'.token
              \/ \E s \in StepSlots : Handled(s)
       /\ LoginAnswered =>
              /\ loginReq'.token <=> loginReq'.action = "GRANT"
              /\ loginReq'.token =>
                     /\ loginReq'.valid
                     /\ loginReq'.status = 200
                     /\ Lt(loginReq'.finalScore, GrantThreshold)
                     /\ tokens' = tokens \cup {LoginToken(loginReq'.user,
                                                          loginReq'.finalScore)}
              /\ ~loginReq'.token => tokens' = tokens
       /\ \A s \in StepSlots :
              Handled(s) =>
                  LET id == stepReq[s].challengeId
                      call == hist'[id][Len(hist'[id])]
                  IN  /\ call.action = "GRANT" <=> call.result.valid
                      /\ call.result.valid =>
                             /\ id \in DOMAIN challenges
                             /\ call.evaluated
                             /\ call.correct
                             /\ tokens' = tokens \cup
                                    {StepUpToken(challenges[id].userId, id)}
                      /\ ~call.result.valid =>
                             /\ call.action \in {"RETRY", "DENY"}
                             /\ tokens' = tokens]_vars

\* both kinds of token have been issued: one by a granted login, one by an
\* accepted step-up on a challenge another login was answered with
C31_Witness ==
    /\ \E t \in tokens : t.via = "login"
    /\ \E t \in tokens : t.via = "step-up" /\ hist[t.challengeId] # <<>>
                              /\ hist[t.challengeId][Len(hist[t.challengeId])].action = "GRANT"

\* a step-up was answered RETRY and a login DENY, and no token exists
C31_RefusedWithout ==
    /\ tokens = {}
    /\ loginReq.n > 0 /\ loginReq.action = "DENY"
    /\ \E id \in DOMAIN hist : \E i \in 1..Len(hist[id]) : hist[id][i].action = "RETRY"

-----------------------------------------------------------------------------
(* A returning user: logins against a profile built from the same typing    *)

\* the session of the scenario: errorRate as calculateErrorRate reports it,
\* a percentage (2 corrections in 100 keystrokes)
ScenarioFeatures == Features(<<80, 82, 79, 81>>, <<60, 58, 61>>, Num(2), Num(55))

\* the same session with errorRate as a fraction of the keystrokes
ScenarioFractionFeatures == [ScenarioFeatures EXCEPT !.errorRate = Frac(2, 100)]

ScenarioRequests == {ScenarioFeatures, ScenarioFractionFeatures}

ScenarioUser == "u1"

\* a profile of n samples, each the summary updateBiometricProfile makes of
\* features: its historical means are those of features exactly
ProfileOf(features, n) ==
    [exists |-> TRUE, createdAt |-> 0, lastUpdated |-> 0,
     samples |-> [i \in 1..n |-> NewSample(features, 0)]]

ScenarioSampleCounts == {1, 5}

\* riskScore values the scenario's client sends
ScenarioClientScores == {Frac(1, 5), Num(1)}

InitScenario ==
    /\ InitCommon
    /\ stepReq = [s \in StepSlots |-> IdleStep]
    /\ \E f \in ScenarioRequests, n \in ScenarioSampleCounts :
          biometricProfiles = [u \in {ScenarioUser} |-> ProfileOf(f, n)]

NextScenario ==
    \/ Tick
    \/ \E ok \in BOOLEAN, c \in ScenarioClientScores, f \in ScenarioRequests :
          Login(ScenarioUser, ok, c, f, MainTypes)

SpecScenario == InitScenario /\ [][NextScenario]_vars

\* the profile as the last login found it (samples are appended at the end)
ProfileBefore ==
    [biometricProfiles[loginReq.user] EXCEPT
        !.samples = SubSeq(@, 1, loginReq.samplesBefore)]

\* the historical means of profile are the values of features
MeansMatch(profile, features) ==
    /\ Len(profile.samples) > 0
    /\ CalculateAverage(MapSamples(profile.samples, "avgHoldTime"))
           = CalculateAverage(NumSeq(features.holdTimes))
    /\ CalculateAverage(MapSamples(profile.samples, "avgFlightTime"))
           = CalculateAverage(NumSeq(features.flightTimes))
    /\ CalculateAverage(MapSamples(profile.samples, "errorRate")) = features.errorRate
    /\ CalculateAverage(MapSamples(profile.samples, "typingSpeed")) = features.typingSpeed

\* C27 as stated: a login with the right password, a riskScore in [0, 1],
\* hold times [80,82,79,81], flight times [60,58,61], errorRate 2 and
\* typingSpeed 55, against a profile whose historical means are these
\* values, is scored below 0.3 and granted.
C27_ScenarioGranted ==
    (/\ loginReq.n > 0
     /\ loginReq.valid
     /\ InUnit(loginReq.riskScore)
     /\ loginReq.features = ScenarioFeatures
     /\ MeansMatch(ProfileBefore, ScenarioFeatures)) =>
        /\ loginReq.action = "GRANT"
        /\ Lt(loginReq.finalScore, GrantThreshold)
        /\ loginReq.token

\* what calculateRisk returns for the features of the last login against
\* the profile that login found
EngineOnLogin == CalculateRisk(loginReq.features, ProfileBefore, loginReq.riskScore, now)

\* What the engine makes of the scenario, and what the handler answers when
\* errorRate is sent as a fraction: calculateRisk on the features of the
\* login, errorRate 2 included, returns temporal 0, deviation 0 and a final
\* score below 0.3; the login with errorRate 0.02 is granted.
C27_EngineScenario ==
    (/\ loginReq.n > 0
     /\ loginReq.valid
     /\ InUnit(loginReq.riskScore)
     /\ MeansMatch(ProfileBefore, loginReq.features)) =>
        /\ EngineOnLogin.factors.temporal = Num(0)
        /\ EngineOnLogin.factors.deviation = Num(0)
        /\ Lt(EngineOnLogin.finalScore, GrantThreshold)
        /\ loginReq.features = ScenarioFractionFeatures =>
               /\ loginReq.action = "GRANT"
               /\ loginReq.finalScore = EngineOnLogin.finalScore

\* the scenario's login with errorRate sent as a fraction was granted
C27_FractionGranted ==
    /\ loginReq.n > 0
    /\ loginReq.features = ScenarioFractionFeatures
    /\ MeansMatch(ProfileBefore, ScenarioFractionFeatures)
    /\ loginReq.action = "GRANT"

-----------------------------------------------------------------------------
(* The local risk estimator in the browser                                  *)

\* feature arrays getTypingFeatures hands to the estimator: ordinary typing,
\* and typing with one or more values outside the ranges calculateConfidence
\* trusts
EstimatorInput(holdTime, flightTime, speed, errorRate, consistency) ==
    <<Num(holdTime), Num(flightTime), Num(20), Num(25), Num(speed),
      Num(errorRate), Num(consistency), Num(60)>>

EstimatorFeatures ==
    { EstimatorInput(100, 60, 50, 2, 80),      \* confidence 1
      EstimatorInput(400, 60, 50, 2, 80),      \* 0.8
      EstimatorInput(100, 60, 50, 30, 80),     \* 0.6
      EstimatorInput(100, 60, 5, 2, 20),       \* 0.49
      EstimatorInput(400, 600, 5, 30, 20) }    \* 0.18816

\* outputs of the sigmoid unit
ModelScores == {Frac(1, 10), Frac(3, 10), Frac(5, 10), Frac(7, 10), Frac(9, 10)}

\* tf.setBackend settles: on success loadOrCreateModel starts; a failed wasm
\* backend falls back to webgl, a failed webgl backend ends the
\* initialization with the rejection unhandled
BackendSettled(ok, parseOk, trainingOk) ==
    /\ estimator.pc \in {"setBackendWasm", "setBackendWebgl"}
    /\ estimator' =
           IF ok THEN LoadOrCreateModel(estimator, parseOk, trainingOk)
           ELSE IF estimator.pc = "setBackendWasm"
           THEN [estimator EXCEPT !.pc = "setBackendWebgl"]
           ELSE [estimator EXCEPT !.pc = "failed"]
    /\ UNCHANGED <<now, biometricProfiles, challenges, issued, loginReq, stepReq,
                   started, tokens, hist, evaluation>>
    /\ UNCHANGED <<prediction, capture, typing, modal, limiterVars>>

\* tf.models.modelFromJSON settles
ModelFromJSONSettled(ok, trainingOk) ==
    /\ estimator.pc = "modelFromJSON"
    /\ estimator' = IF ok THEN ModelObtained(estimator, "loaded", trainingOk)
                    ELSE LoadFailed(estimator)
    /\ UNCHANGED <<now, biometricProfiles, challenges, issued, loginReq, stepReq,
                   started, tokens, hist, evaluation>>
    /\ UNCHANGED <<prediction, capture, typing, modal, limiterVars>>

Dispose ==
    /\ estimator' = DisposeEstimator(estimator)
    /\ estimator' # estimator
    /\ UNCHANGED <<now, biometricProfiles, challenges, issued, loginReq, stepReq,
                   started, tokens, hist, evaluation>>
    /\ UNCHANGED <<prediction, capture, typing, modal, limiterVars>>

\* a calculateRisk that waits for the model when it is not ready
EstimatorCalculateRiskWaiting(features, predictOk) ==
    /\ prediction.pc # "pending"
    /\ prediction' =
           IF ~NotReady(estimator) /\ ~predictOk
           THEN [pc |-> "returned", ready |-> TRUE, waited |-> FALSE,
                 features |-> features, value |-> NeutralFallback]
           ELSE [pc |-> "pending", ready |-> ~NotReady(estimator), waited |-> FALSE,
                 features |-> features, value |-> NeutralFallback]
    /\ UNCHANGED <<now, biometricProfiles, challenges, issued, loginReq, stepReq,
                   started, tokens, hist, evaluation>>
    /\ UNCHANGED <<estimator, capture, typing, modal, limiterVars>>

\* calculateRisk(features) up to its await: the fallback at once when the
\* model is not ready; otherwise the tensors are built and predict is
\* called, which either throws into the catch (predictOk false) or leaves
\* the call waiting on prediction.data()
EstimatorCalculateRisk(features, predictOk) ==
    /\ prediction.pc # "pending"
    /\ prediction' =
           IF NotReady(estimator)
           THEN [pc |-> "returned", ready |-> FALSE, waited |-> FALSE,
                 features |-> features, value |-> NeutralFallback]
           ELSE IF ~predictOk
           THEN [pc |-> "returned", ready |-> TRUE, waited |-> FALSE,
                 features |-> features, value |-> NeutralFallback]
           ELSE [pc |-> "pending", ready |-> TRUE, waited |-> FALSE,
                 features |-> features, value |-> NeutralFallback]
    /\ UNCHANGED <<now, biometricProfiles, challenges, issued, loginReq, stepReq,
                   started, tokens, hist, evaluation>>
    /\ UNCHANGED <<estimator, capture, typing, modal, limiterVars>>

\* prediction.data() settles: the rest of calculateRisk runs
PredictionSettled(ok, risk) ==
    /\ prediction.pc = "pending"
    /\ prediction' = [prediction EXCEPT
                         !.pc = "returned", !.waited = TRUE,
                         !.value = IF ok THEN ModelPrediction(prediction.features, risk)
                                   ELSE NeutralFallback]
    /\ UNCHANGED <<now, biometricProfiles, challenges, issued, loginReq, stepReq,
                   started, tokens, hist, evaluation>>
    /\ UNCHANGED <<estimator, capture, typing, modal, limiterVars>>

InitServerIdle ==
    /\ now = 0
    /\ challenges = <<>>
    /\ issued = 0
    /\ loginReq = NoLogin
    /\ stepReq = [s \in StepSlots |-> IdleStep]
    /\ started = [login |-> 0, stepUp |-> 0, risk |-> 0]
    /\ tokens = {}
    /\ hist = <<>>
    /\ evaluation = NoEvaluation
    /\ biometricProfiles = [u \in Users |-> SeedProfile(5, 0, 0)]

InitEstimator ==
    /\ InitServerIdle
    /\ \E stored \in BOOLEAN : estimator = NewEstimator(stored)
    /\ prediction = NoPrediction
    /\ capture = NewCapture(0)
    /\ modal = MountStepUpChallenge
    /\ typing = NoTyping
    /\ rateStore = <<>>
    /\ admitted = NoneAdmitted

NextEstimator ==
    \/ \E ok, parseOk, trainingOk \in BOOLEAN : BackendSettled(ok, parseOk, trainingOk)
    \/ \E ok, trainingOk \in BOOLEAN : ModelFromJSONSettled(ok, trainingOk)
    \/ Dispose
    \/ \E features \in EstimatorFeatures, predictOk \in BOOLEAN :
          EstimatorCalculateRisk(features, predictOk)
    \/ \E ok \in BOOLEAN, risk \in ModelScores : PredictionSettled(ok, risk)

SpecEstimator == InitEstimator /\ [][NextEstimator]_vars

\* C13: a calculateRisk call made while the model is not ready (no model
\* yet, no normalization parameters, or disposed) has returned by the end
\* of the call itself, without waiting on anything, and its value is
\* riskScore 0.5, confidence 0.1, recommendation STEP_UP.
C13_NotReadyFallback ==
    (prediction.pc # "none" /\ ~prediction.ready) =>
        /\ prediction.pc = "returned"
        /\ ~prediction.waited
        /\ prediction.value.riskScore = Frac(5, 10)
        /\ prediction.value.confidence = Frac(1, 10)
        /\ prediction.value.recommendation = "STEP_UP"

\* the fallback was returned while the model load is still in flight
C13_Witness ==
    /\ prediction.pc = "returned"
    /\ ~prediction.ready
    /\ estimator.pc = "modelFromJSON"
    /\ prediction.value = NeutralFallback

\* C14: every value calculateRisk returns recommends STEP_UP when its
\* confidence is below 0.5; otherwise GRANT for a score below 0.3, DENY for
\* a score above 0.7 and STEP_UP for a score from 0.3 to 0.7.
C14_Recommendation ==
    prediction.pc = "returned" =>
        LET v == prediction.value
        IN  IF Lt(v.confidence, Frac(5, 10))
            THEN v.recommendation = "STEP_UP"
            ELSE /\ Lt(v.riskScore, Frac(3, 10)) => v.recommendation = "GRANT"
                 /\ Gt(v.riskScore, Frac(7, 10)) => v.recommendation = "DENY"
                 /\ (Ge(v.riskScore, Frac(3, 10)) /\ Le(v.riskScore, Frac(7, 10))) =>
                        v.recommendation = "STEP_UP"

\* the model scored 0.9 on features of confidence 0.49: STEP_UP, not DENY
C14_Witness ==
    /\ prediction.pc = "returned"
    /\ prediction.ready /\ prediction.waited
    /\ prediction.value.riskScore = Frac(9, 10)
    /\ prediction.value.confidence = Frac(49, 100)
    /\ prediction.value.recommendation = "STEP_UP"


\* this step is a calculateRisk call of the estimator, up to its await
ScoreCalled == prediction.pc # "pending" /\ prediction' # prediction

\* C35 as stated: once dispose() has been called, isReady() is false and a
\* calculateRisk call returns the neutral fallback at once, in every later
\* state, also when dispose() was called while the initialization the
\* constructor started was still in flight.
C35_DisposedStaysDown ==
    [][estimator'.disposedAt # "never" =>
           /\ ~IsReady(estimator')
           /\ ScoreCalled => /\ prediction'.pc = "returned"
                              /\ prediction'.value = NeutralFallback]_vars

\* What the code keeps of it: after a dispose() called once the
\* initialization has ended (model in place, or both backends failed),
\* isReady() stays false and every call returns the fallback at once.
C35_DisposedAfterInit ==
    [][estimator'.disposedAt \in {"done", "failed"} =>
           /\ ~IsReady(estimator')
           /\ NotReady(estimator')
           /\ ScoreCalled => /\ prediction'.pc = "returned"
                              /\ prediction'.value = NeutralFallback]_vars

\* dispose() was called while tf.setBackend was pending; the initialization
\* went on, and the disposed object reports ready with a model in place
C35_ReadyAfterDispose ==
    /\ estimator.disposedAt = "setBackendWasm"
    /\ estimator.pc = "done"
    /\ IsReady(estimator)
    /\ ~NotReady(estimator)

\* dispose() was called after the initialization had ended, and a call made
\* afterwards returned the fallback
C35_DownAfterDispose ==
    /\ estimator.disposedAt = "done"
    /\ prediction.pc = "returned"
    /\ ~prediction.ready

-----------------------------------------------------------------------------
(* The keystroke capture in the browser                                     *)

\* keys of the model's keyboard: two letters, the upper-case letter F, a
\* modifier and the two correction keys
Keys ==
    { <<"a">>, <<"b">>, <<"F">>, <<"S", "h", "i", "f", "t">>, Backspace,
      <<"D", "e", "l", "e", "t", "e">> }

\* letters whose press and release the session is expected to time
PlainKeys == { <<"a">>, <<"b">> }

\* milliseconds between one keyboard event and the next
KeyGaps == {40, 70}

\* bound of the model: keyboard events per session
MaxKeyEvents == 5

\* a keydown event on the attached element, gap ms after the previous event
KeyDown(key, gap) ==
    LET timestamp == typing.clock + gap
    IN  /\ typing.events < MaxKeyEvents
        /\ key \notin typing.held
        /\ capture' = CaptureKeyDown(capture, key, timestamp)
        /\ typing' = [clock |-> timestamp,
                      held |-> typing.held \cup {key},
                      log |-> IF key \in PlainKeys
                              THEN Append(typing.log,
                                          [key |-> key, down |-> timestamp, up |-> 0])
                              ELSE typing.log,
                      plain |-> typing.plain /\ typing.held = {} /\ key \in PlainKeys,
                      events |-> typing.events + 1]
        /\ UNCHANGED <<now, biometricProfiles, challenges, issued, loginReq, stepReq,
                       started, tokens, hist, evaluation>>
        /\ UNCHANGED <<estimator, prediction, modal, limiterVars>>

\* the keyup event of a key that is down
KeyUp(key, gap) ==
    LET timestamp == typing.clock + gap
        last == CHOOSE i \in 1..Len(typing.log) :
                    /\ typing.log[i].key = key
                    /\ \A j \in (i + 1)..Len(typing.log) : typing.log[j].key # key
    IN  /\ typing.events < MaxKeyEvents
        /\ key \in typing.held
        /\ capture' = CaptureKeyUp(capture, key, timestamp)
        /\ typing' = [typing EXCEPT
                         !.clock = timestamp,
                         !.held = @ \ {key},
                         !.log = IF key \in PlainKeys
                                 THEN [@ EXCEPT ![last].up = timestamp] ELSE @,
                         !.events = @ + 1]
        /\ UNCHANGED <<now, biometricProfiles, challenges, issued, loginReq, stepReq,
                       started, tokens, hist, evaluation>>
        /\ UNCHANGED <<estimator, prediction, modal, limiterVars>>

InitCapture ==
    /\ InitServerIdle
    /\ estimator = NewEstimator(FALSE)
    /\ prediction = NoPrediction
    /\ capture = NewCapture(PageLoaded)
    /\ modal = MountStepUpChallenge
    /\ typing = NoTyping
    /\ rateStore = <<>>
    /\ admitted = NoneAdmitted

NextCapture ==
    \/ \E key \in Keys, gap \in KeyGaps : KeyDown(key, gap)
    \/ \E key \in Keys, gap \in KeyGaps : KeyUp(key, gap)

SpecCapture == InitCapture /\ [][NextCapture]_vars

\* the session so far is letters pressed and released one after the other
Sequential == typing.plain /\ typing.held = {}

\* C15 as stated: after n >= 2 letters pressed and released in sequence the
\* session holds n - 1 flight times, the k-th being the press time of
\* letter k + 1 minus the release time of letter k.
C15_FlightTimes ==
    (Sequential /\ Len(typing.log) >= 2) =>
        /\ Len(capture.sessionData.flightTimes) = Len(typing.log) - 1
        /\ \A k \in 1..(Len(typing.log) - 1) :
              capture.sessionData.flightTimes[k] =
                  typing.log[k + 1].down - typing.log[k].up

\* what the capture does record in such a session: a hold time per letter,
\* release minus press, and no flight time at all
C15_HoldTimesOnly ==
    Sequential =>
        /\ Len(capture.sessionData.holdTimes) = Len(typing.log)
        /\ \A k \in 1..Len(typing.log) :
              capture.sessionData.holdTimes[k] = typing.log[k].up - typing.log[k].down
        /\ capture.sessionData.flightTimes = <<>>

DeleteKey == <<"D", "e", "l", "e", "t", "e">>

\* the keys the session is to count as corrections
CorrectionKeys == {Backspace, DeleteKey}

\* this step delivers the keydown, or the keyup, of key
Pressed(key) == key \notin typing.held /\ key \in typing'.held

Released(key) == key \in typing.held /\ key \notin typing'.held

\* the step leaves the keystroke counter and both sample lists as they were
SamplesKept ==
    /\ capture'.sessionData.totalKeystrokes = capture.sessionData.totalKeystrokes
    /\ capture'.sessionData.holdTimes = capture.sessionData.holdTimes
    /\ capture'.sessionData.flightTimes = capture.sessionData.flightTimes
    /\ capture'.metrics = capture.metrics

\* C23 as stated: the press of Backspace or Delete adds one to corrections,
\* and neither its press nor its release changes totalKeystrokes,
\* holdTimes or flightTimes or opens a record for the key.
C23_CorrectionCounted ==
    [][\A key \in CorrectionKeys :
          /\ Pressed(key) =>
                 /\ capture'.sessionData.corrections = capture.sessionData.corrections + 1
                 /\ SamplesKept
          /\ Released(key) =>
                 /\ capture'.sessionData.corrections = capture.sessionData.corrections
                 /\ SamplesKept]_vars

\* What the capture does: Backspace is counted as stated; Delete is in the
\* list of keys isModifierKey ignores, and its press and release change
\* nothing, the correction counter included.
C23_BackspaceOnly ==
    [][/\ Pressed(Backspace) =>
              /\ capture'.sessionData.corrections = capture.sessionData.corrections + 1
              /\ SamplesKept
       /\ Released(Backspace) => capture' = capture
       /\ (Pressed(DeleteKey) \/ Released(DeleteKey)) => capture' = capture]_vars

\* the keys of the modifierKeys list: modifiers and navigation keys
ListedKeys == ModifierKeys

\* keys that type a character
CharacterKeys == {key \in Keys : Len(key) = 1}

\* C24 as stated: the press and the release of a modifier or navigation
\* key change nothing in the capture, and the press of every character
\* key, the upper-case letter F included, is counted as a keystroke.
C24_CharactersCounted ==
    [][\A key \in Keys :
          /\ (key \in ListedKeys /\ (Pressed(key) \/ Released(key))) =>
                 capture' = capture
          /\ (key \in CharacterKeys /\ Pressed(key)) =>
                 capture'.sessionData.totalKeystrokes =
                     capture.sessionData.totalKeystrokes + 1]_vars

\* What the capture does: a key is ignored exactly when it is in the list
\* or its name starts with "F", which the letter F does; every other key
\* except Backspace is counted on its press.
C24_IgnoredByPrefix ==
    [][\A key \in Keys :
          /\ (IsModifierKey(key) /\ (Pressed(key) \/ Released(key))) =>
                 capture' = capture
          /\ (~IsModifierKey(key) /\ key # Backspace /\ Pressed(key)) =>
                 capture'.sessionData.totalKeystrokes =
                     capture.sessionData.totalKeystrokes + 1]_vars


\* the features object handleSubmit of the login form builds from
\* getSessionData() (the fields biometricSchema keeps)
SubmittedFeatures(session) ==
    Features(session.holdTimes, session.flightTimes, session.errorRate,
             session.typingSpeed)

\* currentRisk?.riskScore || 0.5 while no estimate has been made
SubmittedRiskScore == Frac(5, 10)

\* C37 as stated: a session of the capture module with at least one
\* completed keystroke, submitted by the login form as it stands, passes the
\* login schema of the server; its errorRate, corrections / totalKeystrokes
\* * 100, lies in the range the schema allows whatever the number of
\* corrections.
C37_SessionAccepted ==
    Len(capture.sessionData.holdTimes) >= 1 =>
        /\ LoginSchemaOk(SubmittedRiskScore, SubmittedFeatures(capture.sessionData))
        /\ Le(Num(0), capture.sessionData.errorRate)
        /\ Le(capture.sessionData.errorRate, Num(1))

\* What the code keeps of it: typingSpeed is always in range, so the session
\* passes the schema exactly when its errorRate is at most 1; that is so
\* whenever Backspace was never pressed, and an errorRate that is not 0 is
\* at least 100 / totalKeystrokes.
C37_AcceptedUpToOnePercent ==
    Len(capture.sessionData.holdTimes) >= 1 =>
        LET session == capture.sessionData
        IN  /\ Le(Num(0), session.typingSpeed)
            /\ Le(Num(0), session.errorRate)
            /\ LoginSchemaOk(SubmittedRiskScore, SubmittedFeatures(session))
                   <=> Le(session.errorRate, Num(1))
            /\ session.corrections = 0 => session.errorRate = Num(0)
            /\ session.errorRate # Num(0) =>
                   Ge(session.errorRate, Frac(100, session.totalKeystrokes))

\* one key typed and released, then Backspace: errorRate is 100
C37_OneCorrection ==
    /\ Len(capture.sessionData.holdTimes) = 1
    /\ capture.sessionData.corrections = 1
    /\ capture.sessionData.totalKeystrokes = 1
    /\ capture.sessionData.errorRate = Num(100)

\* a session of two completed keystrokes without corrections passes
C37_CleanSessionPasses ==
    /\ Len(capture.sessionData.holdTimes) = 2
    /\ capture.sessionData.corrections = 0
    /\ LoginSchemaOk(SubmittedRiskScore, SubmittedFeatures(capture.sessionData))

-----------------------------------------------------------------------------
(* The rate limiter in front of the routes                                  *)

\* URLs a client requests: the routes, bare and with a query string
RequestUrls ==
    { <<LoginRoute>>, <<LoginRoute, "?r=1">>, <<StepUpRoute>>, <<"/api/auth/profile">> }

\* bound of the model: requests sent in all
MaxRequests == 11

\* the route that serves a URL, and so the documented limit it falls under
RouteOf(url) == url[1]

ClassOf(url) ==
    IF RouteOf(url) \in {LoginRoute, StepUpRoute} THEN RouteOf(url) ELSE "other"

\* rateLimitMiddleware(req, res, next): the request is counted against the
\* bucket of its ip and originalUrl and passed on (next) or answered 429
RateLimitMiddleware(ip, url, sweep) ==
    LET limits == LimitsFor(url)
    IN  /\ admitted.requests < MaxRequests
        /\ \E check \in {CheckLimit(rateStore, ip, url, limits.windowSecs,
                                    limits.maxRequests, now, sweep)} :
              /\ rateStore' = check.store
              /\ admitted' =
                     [requests |-> admitted.requests + 1,
                      times |-> IF check.allowed
                                THEN [admitted.times EXCEPT ![ip][ClassOf(url)] =
                                         Append(@, now)]
                                ELSE admitted.times]
        /\ UNCHANGED <<now, biometricProfiles, challenges, issued, loginReq, stepReq,
                       started, tokens, hist, evaluation>>
        /\ UNCHANGED clientVars

InitLimiter ==
    /\ InitServerIdle
    /\ estimator = NewEstimator(FALSE)
    /\ prediction = NoPrediction
    /\ capture = NewCapture(0)
    /\ modal = MountStepUpChallenge
    /\ typing = NoTyping
    /\ rateStore = <<>>
    /\ admitted = NoneAdmitted

NextLimiter ==
    \/ Tick
    \/ \E ip \in ClientIps, url \in RequestUrls, sweep \in BOOLEAN :
          RateLimitMiddleware(ip, url, sweep)

SpecLimiter == InitLimiter /\ [][NextLimiter]_vars

\* requests of a class admitted for an ip in the window that starts at t0
AdmittedIn(ip, class, t0, windowSecs) ==
    Cardinality({i \in 1..Len(admitted.times[ip][class]) :
                    /\ admitted.times[ip][class][i] >= t0
                    /\ admitted.times[ip][class][i] < t0 + windowSecs})

WindowStarts == {0, TickSecs, 2 * TickSecs}

\* C16 as stated: per ip, at most 10 login requests are admitted in any 15
\* minutes, at most 5 step-up requests in any 5 minutes and at most 100
\* other requests in any 15 minutes, whatever URLs are requested.
C16_LimitPerIp ==
    \A ip \in ClientIps, t0 \in WindowStarts :
        /\ AdmittedIn(ip, LoginRoute, t0, LoginWindowSecs) <= LoginMaxRequests
        /\ AdmittedIn(ip, StepUpRoute, t0, StepUpWindowSecs) <= StepUpMaxRequests
        /\ AdmittedIn(ip, "other", t0, DefaultWindowSecs) <= DefaultMaxRequests

\* what the limiter does bound: the requests admitted for one ip and one
\* URL while a bucket lasts
C16_LimitPerUrl ==
    \A key \in DOMAIN rateStore :
        rateStore[key].count <= LimitsFor(key[2]).maxRequests


-----------------------------------------------------------------------------
(* The step-up route behind the rate limiter: app.use(rateLimitMiddleware)  *)
(* runs before app.use("/api", routes)                                      *)

\* bound of the model: step-up requests sent in all
MaxGatewayRequests == 6

GatewayUser == "u1"

GatewayType == "math"

\* what the step-up clients of this model send: the answer, a wrong
\* solution, and an empty one, which fails stepUpSchema
GatewaySolutions == {AnswerOf(GatewayType), <<"a", "b", "c">>, <<>>}

\* a middleware that answers 429 and passes the request on all the same
StepUpRequestFallThrough(s, ip, challengeId, solution, sweep) ==
    LET url == <<StepUpRoute>>
        limits == LimitsFor(url)
    IN  /\ stepReq[s].pc = "idle"
        /\ admitted.requests < MaxGatewayRequests
        /\ \E check \in {CheckLimit(rateStore, ip, url, limits.windowSecs,
                                    limits.maxRequests, now, sweep)} :
              /\ rateStore' = check.store
              /\ admitted' =
                     [requests |-> admitted.requests + 1,
                      times |-> IF check.allowed
                                THEN [admitted.times EXCEPT ![ip][ClassOf(url)] =
                                         Append(@, now)]
                                ELSE admitted.times]
              /\ started' = [started EXCEPT !.stepUp = @ + 1]
              /\ stepReq' = [stepReq EXCEPT ![s] =
                                [pc |-> "received", challengeId |-> challengeId,
                                 solution |-> solution,
                                 arrived |-> IF challengeId \in DOMAIN challenges
                                             THEN challenges[challengeId].attempts
                                             ELSE 0 - 1]]
        /\ UNCHANGED <<now, biometricProfiles, challenges, issued, loginReq, tokens,
                       hist, evaluation>>
        /\ UNCHANGED clientVars

\* A POST /api/auth/step-up from ip: rateLimitMiddleware counts it against
\* the bucket of ip and URL; if checkLimit allows it, next() hands it to the
\* router and stepUp has it to handle, otherwise the middleware answers 429
\* and returns.
StepUpRequest(s, ip, challengeId, solution, sweep) ==
    LET url == <<StepUpRoute>>
        limits == LimitsFor(url)
    IN  /\ stepReq[s].pc = "idle"
        /\ admitted.requests < MaxGatewayRequests
        /\ \E check \in {CheckLimit(rateStore, ip, url, limits.windowSecs,
                                    limits.maxRequests, now, sweep)} :
              /\ rateStore' = check.store
              /\ admitted' =
                     [requests |-> admitted.requests + 1,
                      times |-> IF check.allowed
                                THEN [admitted.times EXCEPT ![ip][ClassOf(url)] =
                                         Append(@, now)]
                                ELSE admitted.times]
              /\ IF check.allowed
                 THEN /\ started' = [started EXCEPT !.stepUp = @ + 1]
                      /\ stepReq' = [stepReq EXCEPT ![s] =
                                        [pc |-> "received", challengeId |-> challengeId,
                                         solution |-> solution,
                                         arrived |-> IF challengeId \in DOMAIN challenges
                                                     THEN challenges[challengeId].attempts
                                                     ELSE 0 - 1]]
                 ELSE UNCHANGED <<started, stepReq>>
        /\ UNCHANGED <<now, biometricProfiles, challenges, issued, loginReq, tokens,
                       hist, evaluation>>
        /\ UNCHANGED clientVars

InitGateway ==
    /\ InitCommon
    /\ stepReq = [s \in StepSlots |-> IdleStep]
    /\ biometricProfiles = [u \in Users |-> SeedProfile(5, 0, 0)]

NextGateway ==
    \/ Tick
    \/ issued = 0 /\ CreateChallengeCall(GatewayUser, GatewayType)
    \/ \E ip \in ClientIps, id \in 1..issued, solution \in GatewaySolutions,
          sweep \in BOOLEAN :
          StepUpRequest(1, ip, id, solution, sweep)
    \/ StepUp(1)

SpecGateway == InitGateway /\ [][NextGateway]_vars

\* this step is a request the rate limiter refused
Refused ==
    /\ admitted'.requests = admitted.requests + 1
    /\ admitted'.times = admitted.times

\* C30: a step-up request the rate limiter refuses does not reach the
\* handler or the challenge manager: the challenge store (attempts,
\* completed, presence), the verify calls made and the tokens issued are as
\* before, and no handler is left to run for it.
C30_RefusedBeforeManager ==
    [][Refused =>
          /\ challenges' = challenges
          /\ hist' = hist
          /\ tokens' = tokens
          /\ stepReq' = stepReq]_vars

\* the sixth request of the window was refused: the challenge is stored,
\* not completed, with the 2 attempts that wrong solutions among the five
\* admitted requests had used, and no token exists
C30_Witness ==
    /\ admitted.requests = 6
    /\ Len(admitted.times["10.0.0.1"][StepUpRoute]) = 5
    /\ stepReq[1].pc = "idle"
    /\ 1 \in DOMAIN challenges
    /\ challenges[1].attempts = 2
    /\ ~challenges[1].completed
    /\ Len(hist[1]) = 2
    /\ tokens = {}

\* every verify call and every token comes from a request the limiter let
\* through
C30_CallsAdmitted ==
    \A id \in DOMAIN hist :
        /\ Len(hist[id]) <= Len(admitted.times["10.0.0.1"][StepUpRoute])
        /\ Cardinality(tokens) <= Len(hist[id])

-----------------------------------------------------------------------------
(* The step-up dialog across several challenges                             *)

\* challenges the dialog is shown in one page load
MaxShown == 2

\* a login was answered STEP_UP: the dialog opens on the new challenge
ChallengeShown(challengeId) ==
    /\ ~modal.showStepUp
    /\ modal.shown < MaxShown
    /\ modal' = ShowStepUpChallenge(modal, challengeId)
    /\ UNCHANGED <<now, biometricProfiles, challenges, issued, loginReq, stepReq,
                   started, tokens, hist, evaluation>>
    /\ UNCHANGED <<estimator, prediction, capture, typing, limiterVars>>

\* the interval fires while the dialog is open
TimerTick ==
    /\ TimerRunning(modal)
    /\ modal' = IntervalFired(modal)
    /\ UNCHANGED <<now, biometricProfiles, challenges, issued, loginReq, stepReq,
                   started, tokens, hist, evaluation>>
    /\ UNCHANGED <<estimator, prediction, capture, typing, limiterVars>>

\* handleCancel, or handleSubmit answered GRANT or DENY: the dialog closes
ChallengeDismissed ==
    /\ TimerRunning(modal)
    /\ modal' = HideStepUpChallenge(modal, "user")
    /\ UNCHANGED <<now, biometricProfiles, challenges, issued, loginReq, stepReq,
                   started, tokens, hist, evaluation>>
    /\ UNCHANGED <<estimator, prediction, capture, typing, limiterVars>>

InitModal ==
    /\ InitServerIdle
    /\ estimator = NewEstimator(FALSE)
    /\ prediction = NoPrediction
    /\ capture = NewCapture(0)
    /\ modal = MountStepUpChallenge
    /\ typing = NoTyping
    /\ rateStore = <<>>
    /\ admitted = NoneAdmitted

NextModal ==
    \/ ChallengeShown(modal.shown + 1)
    \/ TimerTick
    \/ ChallengeDismissed

SpecModal == InitModal /\ [][NextModal]_vars

\* C36 as stated: every challenge the dialog shows starts its countdown at
\* 300 seconds, so the countdown of an open dialog reads 300 minus the
\* seconds this challenge has been displayed, whatever was displayed,
\* expired or dismissed before it; and the timer closes a challenge only
\* once it has been displayed for 300 seconds.
C36_FullCountdown ==
    /\ TimerRunning(modal) => modal.timeRemaining = ChallengeSecs - modal.displayed
    /\ modal.closedBy = "timer" => modal.displayed = ChallengeSecs

\* What the code keeps of it: the first challenge after the page load gets
\* the full countdown and is closed by the timer after 300 seconds; for
\* every challenge the countdown reads 300 minus the seconds all challenges
\* together have been displayed, and 0 once those are used up.
C36_SharedCountdown ==
    /\ modal.timeRemaining = IF modal.elapsed >= ChallengeSecs THEN 0
                              ELSE ChallengeSecs - modal.elapsed
    /\ modal.shown = 1 => C36_FullCountdown

\* the first challenge ran out; the second one was closed by the timer a
\* second after it was shown
C36_SecondClosedAtOnce ==
    /\ modal.shown = 2
    /\ modal.closedBy = "timer"
    /\ modal.displayed = 1
    /\ modal.elapsed = ChallengeSecs + 1

\* the first challenge was closed by the timer after 300 seconds
C36_FirstRanOut ==
    /\ modal.shown = 1
    /\ modal.closedBy = "timer"
    /\ modal.displayed = ChallengeSecs

=============================================================================
